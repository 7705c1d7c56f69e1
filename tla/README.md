# A verification project for AgentSkeleton

AgentSkeleton is a local command-line agent. `agent run "<goal>"` asks a model
for tool calls, checks each one against a permission policy, executes it, feeds
the result back, and ends with one final status. Around that loop there are
sessions (what earlier runs said), managed static servers, a log of every run,
a registry of tools, and commands that display all of it.

This directory holds TLA+ models of the parts of that program that have state
and an order in which things may go wrong, TLC configurations that check them
on small instances, and proofs, checked by TLAPS, of what each of them promises
for instances of any size. Paths such as `core/loop.py` are relative to
`src/src/agentskeleton/`.

To check one run, or the proofs of one module, in this directory:

    tlc -workers 2 -config MCAgentLoop_batches.cfg MCAgentLoop.tla
    tlapm AgentLoop_proofs.tla

The other modules with proofs are `ModelContext_proofs`, `SessionStore_proofs`,
`ServerManager_proofs`, `RunLog_proofs`, `Workspace_proofs`, `ToolGate_proofs`
and `Counting`.


## 1. The system

### Components, their state and operations

| Component | Code | State | Operations |
|---|---|---|---|
| agent loop | `core/loop.py`, `core/state.py`, `core/actions.py` | `RunState`: step count, observations, fingerprint and count of the last repeated call, final status; the log as it is written | one run: ask the model (with retries), accept a call or a batch, look up, validate, ask the policy, ask the user, execute, observe, finish |
| model client | `core/llm.py` | `RunState.response_context_items`, `sent_observation_count` | build the input of a request, send it, extend the context by the output, trim it, parse calls |
| session store | `core/session.py` | `transcript.jsonl`, `summary.md` per session | append a turn, refresh the summary, load, list |
| managed servers | `server_manager.py`, `tools/server.py` | `servers.json`; processes, ports and pids of the operating system | start, stop, restart, list |
| run log | `logging/run_logger.py`, readers in `cli.py` | one JSONL file per run | log an event; reconstruct a run from the events |
| command line | `cli.py` | none of its own | run, chat, restore-run, resume-run, show-run, runs, sessions, servers, stop-server, restart-server, doctor |
| permission policy | `policy/*.py` | none | decide: allow, confirm or block a call |
| tool registry, loading | `tools/registry.py`, `tools/loading.py`, `tools/base.py`, `tools/provenance.py`, `domain_tools.py` | tools by name, `sys.modules` | register, validate arguments, load tool modules |
| filesystem, shell and user tools | `tools/filesystem.py`, `tools/shell.py`, `tools/user.py` | the workspace, temporary files, processes | write, read, list, run a command for a limited time, ask the user |
| data tools | `tools/data.py` | none | queries over files and SQLite databases |
| evaluation | `eval.py`, `eval_tools.py` | results of a suite | run scripted scenarios through the loop |
| configuration, tracing | `config.py`, `core/runtime.py`, `core/trace.py` | none | parse, validate, display |

### How they interact

All calls inside a run are synchronous, in one thread: `cli.run` refreshes and
loads the session, appends the goal to it, calls `AgentLoop.run`, and appends
the answer. The loop calls the model client, the registry, the policy, the
confirmation prompt, the tools and the logger, and waits for each of them. The
loop and the model client share `RunState`: the loop appends observations, the
client counts which of them it has sent.

What is shared between *processes* is files: every `agent` command is a process
of its own, and `transcript.jsonl`, `summary.md`, `servers.json`, the run logs
and the workspace are read and written without a lock. A log is read while its
run goes on; a command started by the shell tool may outlive its call and its
run. An evaluation runs many scenarios in one process, each with a registry of
its own, but with one `sys.modules`. Managed servers are detached processes that outlive the
command that started them.

### What is hard here, and what makes each part correct

- **agent loop.** `_execute_tool_action` has more than ten exits, inside a loop
  over a batch, inside a loop over steps, next to a retry loop. Correct means:
  each accepted call gets exactly one observation, in order; a refusal ends the
  run before anything else happens; the repeat counter, which lives across all
  of these loops, stops a run exactly when it should; a bad batch does nothing;
  the final status says what happened; the run ends.
- **model client.** The context is changed before a request that may fail and be
  repeated, and cut by a count of items. Correct means: no observation is lost
  or sent twice, every call is followed by its output, the goal stays.
- **session store.** Files that grow, are rewritten, may be cut off in the middle
  of a line, and are used by several processes. Correct means: nothing falls
  between summary and transcript, only what was torn is lost, a run is restored
  once.
- **managed servers.** A registry that is read, changed and rewritten, and that
  must agree with processes it does not control. Correct means: a server that
  runs is recorded, a record is not lost, ids are unique.
- **run log.** Errors of the logger are swallowed, a write may stop in the middle
  of a line, and a run is reconstructed from what is left, possibly before it
  has ended. Correct means: what is reconstructed never contradicts the run, and
  what is missing is accounted for by what was lost.
- **permission policy.** A decision about a whole command, made by detectors that
  look at its segments or, one of them, at its tokens. Correct means: profiles are
  ordered, and nothing becomes acceptable by being put next to another command (with
  an exception where an `&` touches a word, see section 5).
- **tool registry and loading.** Code that may change between two builds in one
  process, and tools that may change themselves. Correct means: what runs is
  what is on disk, and arguments are checked against what the model was shown.
- **filesystem, shell and user tools.** Checks before uses, in a workspace that
  others change, temporary files that these others see, and processes that outlive
  a call. Correct means: targets are whole, results are true, temporary files are
  accounted for, calls return, `read_only` changes nothing.

`PROJECT.json` lists 40 hazards at their lines, each with the properties that
cover it or the reason why none does.


## 2. The modules

| Module | Models | Lines of TLA+ |
|---|---|---|
| `RunContract` | what a run promises its user: an abstract specification of four actions | 76 |
| `AgentLoop` | `AgentLoop.run` and `_execute_tool_action` | 553 |
| `ModelContext` | `LLMClient`: the context of a run | 295 |
| `SessionStore` | the files of a session, and the commands run, chat and restore-run | 309 |
| `ServerManager` | `ServerManager`, `servers.json`, and the operating system around it | 349 |
| `RunLog` | the log of an `AgentLoop` run, its readers, resume-run and restore-run | 358 |
| `PermissionPolicy` | `PermissionPolicy.decide` and its detectors, as operators | 154 |
| `Workspace` | the file tools, `shell` and `ask_user` of several agents in one workspace | 543 |
| `ToolArguments` | validation of schemas, and of arguments against them, as operators | 160 |
| `ItemBounds` | how a long collection is cut, as operators | 58 |
| `ToolRegistry` | loading and registering tools; `sys.modules` | 223 |
| `ToolGate` | a call from the request to the stored result | 194 |
| `*_proofs` | theorems about the module of that name (and, in `AgentLoop_proofs`, that it implements `RunContract`) | 1,000 to 2,390 each |
| `Counting` | facts about numbers and finite sets that the proofs share | 163 |
| `MC*` | the constants that a `.cfg` cannot write, and symmetry sets | |

Definitions named `Fault...` (and `FirstMemberOnly`) are *seeded faults*: what
the definition next to them would be with a plausible bug. They are used by no
specification. `RunLog` extends `AgentLoop`: its log is the one the loop writes.
`ToolGate` extends `ToolRegistry` (and with it `ToolArguments`),
`PermissionPolicy` and `ItemBounds`; `Workspace` extends `PermissionPolicy`.
Each property was checked to fail when one of them takes its
definition's place; `PROJECT.json` lists the pairs under `mutants`.

### AgentLoop

| Model | Code |
|---|---|
| `step_count`, `observations`, `final_status`, `last_action_fingerprint`, `repeated_action_count` | the fields of `RunState` with these names |
| `attempt`, `queue`, `call`, `decision` | locals of `run` and `_execute_tool_action` |
| `pc` | where those two are waiting: for the model, the user, a tool |
| `log` | the events handed to `RunLogger.log` |
| `asked`, `ran` | history: calls accepted, and which of them a tool was executed for |
| `Start` ... `FinishRun` | one action for every way to get from one of these places to the next |

A call is its provider `call_id` and a *fingerprint*, the tool name with the
arguments, because that is all the loop compares. Which fingerprints name a
registered tool, and which have arguments that fit the schema, are constants;
what the model, the policy, the user and a tool answer is a choice at each step.
A batch of `MaxBatch + 1` members stands for every longer one, as
`_bounded_batch_tool_calls` reads no further. `Interrupt` is Ctrl-C where the
loop waits: it is not an `Exception`, so nothing is closed.

`RunContract` knows only the calls taken so far, how many of them were answered
and the final status. `AgentLoop` instantiates it as `Contract`; a step of the
loop is a step of the contract or changes nothing it can see.

### ModelContext

`items`, `sent` and `observations` are `RunState.response_context_items`,
`sent_observation_count` and the `call_id`s of `RunState.observations`. An item
is a conversation turn (known by its position), the goal, a function call (by
its `call_id` as the provider wrote it), an output (by its observation, with the
`call_id` as `_parse_function_call` stripped it) or anything else. `BuildInput`
is the whole of `_build_input`, which changes the state *before* the request;
`ResponseUnusable`, `ResponseWithoutCall` and `ResponseWithCalls` are what can
come of the request. All calls of an output reach the loop, but only what can be
serialized is kept: `Serialized` chooses any of the calls, in their order, with or
without an item of another kind anywhere between them. `lossless` remembers whether
a call was lost in this way, or an item by trimming. The loop is reduced to what it
does to this state.

### SessionStore

A line of `transcript.jsonl` is the turn it holds and whether its end was
written. A line that was cut off is garbage or, if only its end is missing, can
be read until the next append runs into it (`Extended`). Each process is at one
of the places where another may interfere: `refresh_summary` is three steps
(read, truncate, write), `load` two (transcript, summary), then the goal and the
answer are appended. A size is a number of lines: `MaxLines` for the 2 MiB that
a load accepts, `SummaryLines` for the 4096 characters of a summary that are
loaded.

### ServerManager

`registry` is the rows of `servers.json` and `readable` whether it parses.
`process` is the operating system's: a server that has not bound its port, one
that serves, one that was asked to end, a foreign program. Pids are reused, with
the exception of children that were not reaped. A command's steps are those
between which another command or the operating system may move: find a port
(bind and close again), spawn, wait for HTTP, load the registry, truncate it,
write it; look up, kill, truncate, write for a stop; both for a restart. A check
path is one that can be sent as it is (`"ascii"`) or one that cannot (`"other"`):
then `_wait_for_http` raises an error that it does not catch (`WaitRaises`), the
command ends, and the server it has spawned is one of the `abandoned`.

### RunLog

| Model | Code |
|---|---|
| the variables of `AgentLoop` | the run; its `log` is what happened |
| `written` | how many events were handed to `RunLogger.log` |
| `file` | the lines of the run log: the event a line holds, and whether its end was written |
| `WriteEvent`, `DropEvent`, `TearEvent` | `RunLogger.log`: the event is written, not at all, or in part; `_log_event` swallows the error |
| `Readable`, `Summary` | `_read_run_events`, `_summarize_run_log` |
| `command`, `session` | a `restore-run` or `resume-run` between its steps; the turns appended for this run |

The loop waits for its logger, so a step of `AgentLoop` is taken only when all
earlier events were handed over. `KillRun` ends the process between any two
steps, also between two events of one step. A command reads at any time. The
report is the part of a summary that becomes an answer in a session or the
conversation of a resumed run; `settled` remembers whether the log was complete
when it was read. The list of observations in a snapshot goes through
`RunLogger.redact`, which keeps `_MAX_LOG_COLLECTION_ITEMS - 1` items of a longer
list and a marker; `SnapshotSize` is the length of what remains (`Redacted`), which
is what show-run displays.

### Workspace

A path is the root, a directory `Dir`, or a file in one of them; `Outside` is
any path `resolve_workspace_path` refuses. A file is known by who wrote it,
whether it is all there, and whether it is larger than the tools allow. Each
system call of a tool is a step of its own, and between two of them anyone else
may act: `write_file` checks the parent, makes it, checks the target, creates
its temporary file, fills it, replaces the target and cleans up; `read_file`
and `list_dir` look, then read. A temporary file is an entry of the tree like any
other (`TempNames`): `list_dir` shows it, whoever has seen it may read it, write to
it or list it, and a command may cut it, replace it or remove it at any time.
`leftover` counts the writes that did not remove theirs: because the agent was
killed, because `unlink` failed, or because Ctrl-C came inside of the `finally`
(`Kill`, `CleanUp`, `Interrupt`). `wanted` are those that a `write_file` was asked to
write as its target. `jobs` has, for each command, the shell and one
process it started, attached to the pipes of the call or detached. `Effect` is
what a command may do to the tree as long as one of them lives. Whether a call
starts at all is up to `PermissionPolicy` and the user.

### ToolRegistry and ToolGate

A module is the sequence of the names in its dotted path. `modules` is
`sys.modules`: the version a module was executed from, and those of the modules
it is bound to. `LoadModule` is one turn of `load_tools_from_modules`: evict the
module and its packages, import it with its parents and what it needs, collect
its tools; `FinishBuild` registers all of them, or fails and ends the command.
`EditFile` changes a file, at any time; it may leave one that cannot be imported.

A command is a sequence of *parts*: the tokens of a segment, as
`_split_shell_segments` finds it, and at which of its ends an `&` is stuck to the
token. Most detectors look at segments. `_looks_like_recursive_delete` looks at
the words between blanks, `;` and `|`, so a token with an `&` at it is not what it
would be alone: `StandsAlone` says when it still is.

`ToolGate` takes one call through `ShowTools`, `CheckArguments`, `DecideCall`,
`FollowDecision` and `RunTool`. Whatever `AgentLoop` leaves open at these places
is computed: by `ArgumentsAccepted` from the schema in the registry, by `Decide`
from the command, by `Bounded` from the number of items. `RunTool` may change the
tool's own schema. JSON values and schemas are trees of a few kinds; a number is
known by its value, because the code compares members of an `enum` as Python
does, where `True` equals 1.

A command is the sequence of its segments and a segment that of its tokens, one
for each class of words the detectors treat alike.


## 3. What TLC checks

| Run | States | Shows |
|---|---|---|
| `loop_batches` | 724,586 | batches of up to three calls over two steps |
| `loop_steps` | 68,628 | single calls over three steps with retries; termination; refinement |
| `context_trim` | 834,360 | a context that is trimmed, requests that fail |
| `session_shared` | 1,756,148 | two processes, crashes, torn lines, a full transcript |
| `server_commands` | 769,887 | two managers, three processes, a crash, a full disk, a start that ends in its wait |
| `runlog_readers` | 1,512,970 | a run whose log loses, tears or ends, and two commands that read it |
| `workspace_shared` | 301,994 | two agents and their commands in one workspace; calls return |
| `gate_calls` | 155,791 | two registries built in one process, calls from request to result |
| `context_goal`, `context_callid`, `session_longturns`, `server_sameid` | | the four findings of section 5 |

### The properties

`AgentLoop`, run `loop_batches`:

- `AnswersFollowCalls`: the n-th observation answers the n-th accepted call, and
  at most the call in progress is unanswered. The model API refuses a request
  in which one is missing.
- `RefusalEndsTheRun`: after a call was blocked, denied, unknown or repeated too
  often no other call is taken, in the batch or later, and no tool ran for it. (Of
  a denial the design document says this in two places and the opposite in a third:
  section 5.)
- `StatusMatchesLastAnswer`: the final status agrees with what became of the
  last call.
- `NoThirdRepeat`, `RepeatStopJustified`: the loop executes no call that is the
  third equal one in a row, and stops for a repetition only if there was one.
- `RejectedBatchRunsNothing`: a batch with a bad member, a repeated `call_id` or
  too many members does nothing.
- `OutcomeIsFinal`: once the status is set nothing is accepted, executed or
  answered.

Run `loop_steps`:

- `RequestsBounded`: the requests of a run are at most `max_steps` times
  `model_retry_attempts`.
- `RunEnds`: every run ends.
- `ImplementsContract`: the loop implements `RunContract`.

`ModelContext`, run `context_trim`:

- `OutputsSentOnce`: the outputs in the context are those of the newest
  observations, each once and in order, however often a request failed; all of
  them, while nothing was trimmed and no call lost.
- `CallsAnswered`: every call in a request is followed by its output, also after
  trimming.
- `OutputsPaired`: as long as nothing was trimmed and no call lost, every output answers a
  call before it. (After trimming an output may stand without its call: that is
  what the code does.)
- `GoalLeads`: the goal is in every request, before anything the model did, if
  the conversation leaves room for it among the anchors.

`SessionStore`, run `session_shared`:

- `NothingForgotten`: a turn whose refresh and load nobody disturbed starts with
  all of the last `session_context_turns + session_summary_turns` turns, each
  once, whatever earlier crashes left behind, if their summary is short enough.
- `OnlyTornLinesLose`: a line that is cut off costs at most one other turn.
- `RestoredOnce`: without a fault a run is restored once by the commands that check
  it while no other is about to append its goal: a later check finds the goal, with
  or without its answer. Two commands that both check before either of them appends
  do restore it twice; the second of them is not counted.
- `TranscriptBounded`: a transcript that is too large to load grows no further
  than the commands under way take it.

`ServerManager`, run `server_commands`:

- `LiveServersRecorded`, `RecordsKept`: while no command crashes, no two of them
  are between reading and writing the registry at once and no id of a live
  server is used again, a server that was not asked to end is recorded, and a
  row is never lost. Excepted are the servers whose start ended by an error in the
  wait for HTTP (section 5).
- `IdsAreUnique`: no id has two rows, whatever overlaps, crashes or fails.

`RunLog`, run `runlog_readers`:

- `LossBounded`: readers see the events in order, each at most once, and miss at
  most one for each write that left nothing and two for each that was cut off.
- `SummaryInventsNothing`: a summary of any such log, at any time, has no status
  but the true one, and not more calls, failures or errors than there were.
- `SnapshotAgreesWithCalls`: the calls that are counted and the snapshot shown
  beside them differ by what was lost, and by one call while the run goes on, as
  long as the number shown is below the limit of a logged list; at the limit it
  says "as many or more". For a closed run without losses all calls are counted,
  and all that fit are shown.
- `ToldTheTruth`: what a session or a resumed run was told of a run stays true
  when the run goes on, and is `unknown` only if the run was open or events lost.
- `HalfRestored`: a restored goal without its answer means that its command is
  still at work or died between the two.

`Workspace`, run `workspace_shared`:

- `WholeFilesOnly`: half of what a `write_file` writes is found, and returned by
  `read_file`, under the name of its own temporary file only, never under the name
  of its target or of any other file; and no file larger than allowed is returned;
  whatever happens between check and use, and whoever reads, writes or removes
  temporary files.
- `ResultsTrue`: a `write_file` that succeeded has replaced its target, one that
  failed has not; after a command that exited nobody holds its pipes, after one
  that timed out its shell is gone.
- `TempsExplained`: there are no more temporary files than writes in progress and
  writes that were killed, interrupted in their `finally`, or unable to remove
  theirs, apart from those that a `write_file` was asked to write.
- `ReadOnlyKeepsTree`: under `read_only` nothing an agent does changes the tree.
- `CallsReturn`: every call but a question to the user returns, or its agent was
  killed, even if commands, their children and other agents never stop.
- `WsTypeOK`: also that files and temporary files are in directories that exist.

`ToolGate`, run `gate_calls`:

- `RunsWhatIsOnDisk`: no tool of a registry, and no module of its own package
  that it imports, was executed from a file older than the start of the build.
  (A helper module outside of the package of the tool may be: the code keeps it.)
- `AcceptedConforms`: arguments that are accepted conform, in every value nested
  in them, to the schema the model was shown. The reference, `Conforms`, is
  stated without recursion, over all places where a value meets a schema. One
  place is left out, as the code leaves it out: registration accepts a schema with
  an `enum` at its top (`tools/registry.py:266-288`), and
  `_validate_tool_arguments` (`core/loop.py:1561-1599`) never looks at it. The
  instance has such a schema (`OnlyEmpty`).
- `PolicyOrdered`: `read_only` is at least as strict as `standard`, `standard` as
  `trusted`; `confirm_risky_actions` changes no block; a command put before or
  after another, with `;`, `|`, a line end or a free `&` between them, makes it no
  more acceptable. The commands themselves may have an `&` stuck to any word at the
  end of a part.
- `OmissionsCounted`: whichever of the loops a collection has passed, and however
  often, it is within the limit, and what is left and what is said to be left out
  add up to what it was.

### Bounds, and why they are enough

- `MaxBatch = 3` (the code: 20): first, middle and last member, and
  `MaxBatch + 1` for the limit. `RepeatThreshold = 3` is the code's own value;
  two steps of three calls, or three of one, let a repetition begin in one batch
  and end in another, with other calls, failures and bad arguments in between.
- `MaxSteps` of 2 to 4 and `RetryAttempts = 2`: the last step and the last
  attempt differ from the others, and state is carried from one step to the next.
- `MaxItems = 8` with `MaxAnchors = 4` (200 and 50): two calls a step outgrow
  the context in the third of four steps, so that a request is built from a
  context that was trimmed before, and its anchors are fewer than the maximum.
- `KeepTurns = 1`, `SummaryTurns = 2`, `MaxLines = 3`, five commands: turns are
  kept, summarized, forgotten, and the file becomes too large with commands still
  under way. `MaxFaults = 2`: a line is cut off and the one that continues it too.
- Two managers, three pids, two ports, two ids, three commands, a check path of
  either kind: a restart overlaps two starts, ports are taken, pids are reused, also
  that of a server that was left behind.
- `runlog_readers`: two steps of one call write all kinds of events, one of them is
  lost or torn, in a log that may be longer than the readers accept; the second
  command finds the session before, between and after the turns of the first.
  `LogItems = 1` (200): one observation is exactly at the limit, two are cut.
- `workspace_shared`: every pair of calls, one each, on one directory and one file
  in it, which need not exist at first; two changes by commands, so that a
  directory goes and comes back or becomes a file; two faults, so that a write
  fails and its clean-up too, or a write that failed is interrupted in its clean-up.
  The other agent, and commands, find the temporary file at each of these steps.
  `MaxEntries = 1` (200): one file and a temporary one exceed it.
- `gate_calls`: two builds, with a change of each file before, during or after the
  first; five configurations, with limits of two tools loaded and three registered,
  reach every refusal. `ItemLimit = 3` and up to 5 items are below, at, one above
  and two above the limit; a command has up to two parts, compared with those
  of three. The parts are five that stand free, which make the detectors fire alone
  and together, and three with an `&` stuck to an end: `word` at its last token, `rm -r`
  at its first or at its last. Schemas and arguments nest two levels (`MaxNesting` = 3).
- Symmetry is used where values are only compared: provider call ids, processes
  that issue commands, server ids and pids. No liveness property is checked with
  symmetry.

Deadlock is checked in every run but `gate_calls`: there the command ends when a
build fails, and the last of the builds may be followed by nothing.

### Fairness

`RunEnds` and `CallsReturn` need it. `FairSpec` is weak fairness of `LoopStep`, the loop's
own steps together. That is what a single thread does, if every request,
confirmation and tool call returns (or raises). The client library gives up on a
request after a time, and tools are expected to return; a user who never answers a
confirmation stops the run, and so does a tool that never returns, and the
property says nothing of those. `Interrupt` has no fairness: nobody has to press
Ctrl-C.

`WsSpec` is weak fairness of the steps of the file tools and of `shell` of each
agent: a system call on a file returns, and `subprocess.run` returns after
`shell_timeout_seconds` at the latest. Users, commands, the processes they start
and `Effect` have none. `RunLog` and `ToolGate` state safety only.


## 4. What is proved

### The loop

`AgentLoop_proofs` proves, for every value of the constants that satisfies
`LoopAssumption` (positive bounds, a threshold of at least two, special values
that are no calls), so for runs, batches and vocabularies of any size:

| Theorem | States |
|---|---|
| `TypeCorrect` | `Spec => []TypeOK` |
| `CallsAreAnswered` | `Spec => []AnswersFollowCalls` |
| `RefusalsEndTheRun` | `Spec => []RefusalEndsTheRun` |
| `StatusesMatchAnswers` | `Spec => []StatusMatchesLastAnswer` |
| `RequestsAreBounded` | `Spec => []RequestsBounded` |
| `RejectedBatchesRunNothing` | `Spec => []RejectedBatchRunsNothing` |
| `NoThirdRepeatRuns` | `Spec => []NoThirdRepeat` |
| `RepeatStopsAreJustified` | `Spec => []RepeatStopJustified` |
| `OutcomesAreFinal` | `Spec => OutcomeIsFinal` |
| `StepsAreCounted` | `Spec => EveryStepCounts` |
| `LoopImplementsContract` | `Spec => ImplementsContract` |

The argument:

1. `TypeOK /\ ControlOK` is inductive. `ControlOK` says what holds at each place
   of the code: the final status is set exactly when the loop is closing, there
   is a current call exactly while one is executed, the policy's decision is
   known only while the user or the tool is waited for.
2. `StepKinds`: every action is, for calls and answers, one of a few kinds (a call
   is taken, a tool is started, a call is answered, the run is stopped, nothing).
   Later proofs split on these kinds instead of on all actions.
3. `CallsInv` adds `CallInProgress`: the call being executed is the last of
   `asked`, and the only one without an observation. Without it
   `AnswersFollowCalls` is not inductive: an observation is recorded for `call`,
   and nothing would say that `call` is the one due.
4. `RepeatInv` adds `CounterExact`: the counter and the last fingerprint are those
   of `asked`, that is, the last `repeated_action_count` calls are equal, and no
   more of them. `CounterStep` shows that taking a call keeps it exact, and
   `CounterDecides` that comparing it with the threshold decides whether the last
   calls are a repetition.
5. `ContractStep`: with both invariants, before and after, every step of the loop
   is a step of `RunContract` under the refinement mapping or leaves its
   variables alone.
6. For the other three properties, what the log says is tied to what the run did:
   `StatusInv` splits on the same kinds of steps; `LogInv` says of which events the
   log of a step consists and that the counts of calls, answers and requests in it
   are those of the run; `RequestInv` bounds the requests of each step by its
   attempts and counts them over the steps.
7. `Remaining` is a number that every step of the loop decreases: the steps of
   `run` left, each at the cost of all its attempts and of four steps for each
   member of a batch, and what the current step has left. With `StepsAreCounted`,
   `RunEnds` needs only that a next step comes: that one is enabled is what the
   deadlock check shows, that it is taken is the fairness of section 3.

### The context of a run

`ModelContext_proofs`, for every conversation, every limit and any number of
steps, retries and calls in an answer (`ContextAssumption`: positive bounds, and
more items than anchors):

| Theorem | States |
|---|---|
| `ContextTypeCorrect` | `Spec => []TypeOK`, with the bound on the length of a request |
| `EveryOutputIsSentOnce` | `Spec => []OutputsSentOnce` |
| `EveryCallIsAnswered` | `Spec => []CallsAnswered` |
| `EveryOutputAnswersACall` | `Spec => []OutputsPaired` |
| `TheGoalLeads` | `Spec => []GoalLeads` |

One predicate, `Fits(context, sent, open, whole)`, is carried through all steps: of
the stored items between requests, and of the request while it is under way. The
properties speak of requests; `Fits` speaks of the stored items too, where calls
may be without an output. It therefore names the `call_id`s that are still *open*
(answered by an observation that was not sent, or not yet executed), and says that
these are the only ones. `CountInv` says that whatever was observed is sent by the
next request. The lemmas about `Cut` and `Trim` show that trimming, which keeps leading
anchors and the newest items, keeps every part of `Fits`: a call is no anchor, so
its output, which comes later, never goes before it. `ExtendKeeps`
is the step that appends a response: for any part of an output that could be
serialized, the calls of the response become the open ones.

### The session store

`SessionStore_proofs`, for any finite number of processes and any number of
commands, runs, turns and faults (`SessionAssumption`):

| Theorem | States |
|---|---|
| `SessionTypeCorrect` | `Spec => []TypeOK` |
| `AppendedTurnsAreRead` | `Spec => []OnlyTornLinesLose` |
| `RunsAreRestoredOnce` | `Spec => []RestoredOnce` |
| `TranscriptIsBounded` | `Spec => []TranscriptBounded` |
| `NothingIsForgotten` | `Spec => []NothingForgotten` |

1. Every step of a process is of one of four kinds: it `Starts` a command, `Goes`
   on without touching the transcript, `Appends` a line, or `Fails`.
2. `NumbersInv`: commands have numbers of their own, so that the turn about to be
   appended is not among those appended. `LossInv`: the turns that cannot be read
   and the line that is open together are at most as many as were torn; an append
   into an open line closes the account of one and costs the other.
3. `RestoresInv`: without a fault a restore that was counted has appended or is
   about to. A check that passes while another restore is about to append is not
   counted, so the theorem does not cover overlapping checks. `SizeInv` counts, once the transcript is too large, the processes that
   have still two lines to append (`AppendTwo`) and one (`AppendOne`). It is why
   the bound is two lines for each process, and why `Procs` has to be finite.
4. `AloneInv`: what a turn that nobody disturbed knows at each of its places, with
   `Disturbs` naming the steps of others that end it. At the end of its refresh
   the summary *is* that of the transcript, so that the turns of the summary end
   where the kept turns begin.

### The managed servers

`ServerManager_proofs` proves, for any number of managers, ids, pids, ports and
commands (`ServerAssumption`: positive bounds, and `NoPid` is no pid):

| Theorem | States |
|---|---|
| `TypeCorrect` | `Spec => []TypeOK` |
| `IdsStayUnique` | `Spec => []IdsAreUnique` |
| `ServersStayRecorded` | `Spec => []LiveServersRecorded` |
| `RowsStayRecorded` | `Spec => []RecordsKept` |

1. `LiveServersRecorded` excepts the `abandoned`; a pid leaves that set when it is
   given to another process, so that the exception covers nothing else.
   `TypeInv` joins `Known` to `TypeOK`: what a command knows at each of its steps.
   The record that is written has a pid and a port because `Known` says so of
   every step from `wait` on.
2. `IdsInv`: the rows of the registry *and those each command holds* have unique
   ids. It needs no assumption about order: `RowsStep` shows that a command's rows
   are always some former content of the registry, and `UpdatedUnique` that an
   update of such rows has unique ids.
3. `RegistryOK` holds while `orderly` does. `Alone`: one command at a time is
   between loading and writing. `Snapshot`: what it holds is still what the
   registry says. `Target` and `ReplacedIsDead`: the row it is about to change is
   that of a server that was asked to end, or has ended, or whose pid belongs to a
   server that another command is just starting. The last case is why the theorem
   is not obvious: pids are reused between the load and the write.
4. `QuietStep` covers all actions that touch neither the registry nor a command at
   work on it; `LoadStep`, `KillStep`, `TruncateStep` and `WriteStep` are the
   others; a crash or a failed write ends `orderly`.

### The run log

`RunLog_proofs`, for any number of commands, failed and torn writes, and a log of
any length. `LoopGoesOn` shows that every step of `RunLog` is a step of `AgentLoop`
or leaves the loop alone, so that all that is proved of the loop holds here.

| Theorem | States |
|---|---|
| `RunLogTypeCorrect` | `RunLogSpec => []RunLogTypeOK` |
| `LossIsBounded` | `RunLogSpec => []LossBounded` |
| `SummariesInventNothing` | `RunLogSpec => []SummaryInventsNothing` |
| `SnapshotsAgreeWithCalls` | `RunLogSpec => []SnapshotAgreesWithCalls` |
| `ReportsStayTrue` | `RunLogSpec => []ToldTheTruth` |
| `HalvesAreAccountedFor` | `RunLogSpec => []HalfRestored` |

1. `FileInv`: the lines that can be read hold positions of the log in increasing
   order, and what was handed over, less what can be read, plus the *debt* is at
   most what was lost. The debt is what an open last line will still cost: the line
   that is written into it and, if it can be read until then, itself. Without it
   the bound is not inductive.
2. Sums and counts over lines become counts over the positions that were kept, and
   those over a prefix of the log (`ShownAt`, `Covered`): what a summary counts is
   compared with what the loop logged, position by position, with `LogInv` of the
   loop. What is shown is the length of
   the list below the limit (`Redacted`), and the limit for every longer one.
3. `CommandsInv`: the report a command holds, and those in the session, are true of
   the run, and stay true because a closed run does not change
   (`OutcomesAreFinal`). Commands have numbers of their own, and the goals without
   an answer belong to commands that are at their answer or died there.

### The workspace

`Workspace_proofs`, for any number of agents, calls, commands, faults, and files in
any number of places:

| Theorem | States |
|---|---|
| `WorkspaceTypeCorrect` | `WsSpec => []WsTypeOK` |
| `FilesAreWhole` | `WsSpec => []WholeFilesOnly` |
| `ReportedIsTrue` | `WsSpec => []ResultsTrue` |
| `TempsAreExplained` | `WsSpec => []TempsExplained` |
| `ReadOnlyIsKept` | `WsSpec => ReadOnlyKeepsTree` |
| `CallsGoForward` | `WsSpec => CallsAdvance` |

1. `Knows` says what a call knows at each place of its code: which tool it is, and
   what it has found out about its path. Steps fall into a few kinds (`AgentKind`,
   `JobKind`, `TreeKind`), on which all later proofs split.
2. `TreeInv`: what a name holds is `Sound` (half a file of `write_file` only under
   the name of its own temporary file, and nothing of it too large), so is what was
   read, and entries are in directories that exist. The only step of `write_file`
   that puts a file under another name is the replacement. `ReadyInv` says that what
   is there then is not half of anything: the writer itself has filled it, a command
   has put something else in its place, or another `write_file` has replaced it by a
   file for which the same holds.
3. `CallsInv` ties the place of a call to what it has done: it is among those that
   replaced their file exactly between the replacement and its end, and its command
   runs exactly while it waits. `InProgress` is what makes `ResultsTrue`, a
   statement about calls that returned, inductive.
4. `TempsInv`: temporary files that nobody asked for and that belong to no write in
   progress (`Orphans`) are at most as many as the deaths, interrupts in a `finally`
   and failed removals. `WantedInv`: a temporary file that is the target of a call is
   among those asked for, so that a replacement makes no orphan.
5. `ReadOnlyInv`: under `read_only` no call that changes the tree was let through,
   by evaluating `Decide` for every command.
6. `CallsAdvance`: every step of a tool brings its call nearer to its end
   (`PlacesLeft`), and nobody else, Ctrl-C included, moves it back: a call takes at
   most seven steps. It is the part of `CallsReturn` that needs no fairness.

### A call from request to result

`ToolGate_proofs`, for any files, imports, configurations, schemas, arguments and
commands (`ArgumentsAssumption`, `RegistryAssumption`, `GateAssumption`,
`ItemLimitAssumption`: sets of the right shape, values that nest at most
`MaxNesting` deep, finitely many files):

| Theorem | States |
|---|---|
| `RegistryIsFresh` | `GateSpec => []RunsWhatIsOnDisk` |
| `AcceptedArgumentsConform` | `GateSpec => []AcceptedConforms` |
| `CheckIsExact` | arguments are accepted if and only if they conform to the schema, but for its own `enum` |
| `DecisionsAreOrdered` | `GateSpec => []PolicyOrdered` |
| `CutsAreCounted` | `GateSpec => []OmissionsCounted` |

1. *Freshness.* `Fresh` is relative to the start of the build, not to the present:
   files change while a build goes on. `OwnPackageEvicted` shows that a module's own
   package is out of `sys.modules` when it is imported, and `ModuleExecuted` that an
   import then executes what is on disk, through any chain of imports inside of the
   package.
2. *Arguments.* `CheckIsSound`: what the recursive check accepts conforms, for
   values of any depth, and `CheckIsComplete` that nothing else is refused.
   `Accepts` and `Within` are recursive functions on nested values; `WithinIs` and `AcceptsIs` prove that they exist as they are written, by
   induction over the depth (stated with sets, see below), and `BelowPassed` carries
   acceptance from a value to all places below it, one level at a time; the converse
   goes up from the values that hold no others. In the
   state machine, the schemas a registry holds are snapshots: `EntriesKeep` shows
   that a tool which changes its schema afterwards changes neither them nor what
   the model was shown.
3. *Policy.* `StrictnessOfDecide` reads the strictness of a decision off which
   detectors fire; the detectors are monotone in the parts of a command
   (`LongerContains`), so a longer command is decided at least as strictly. The parts
   that are put before or after it are those without an `&` stuck to them; those of
   the command are any.
4. *Omissions.* `SeenIs` is a closed form of the loop over a collection (`After`),
   from which `BoundedIs` and the loops that cut what was cut already follow.

### Facts about numbers and finite sets

`Counting` holds what several proofs need and the library does not state: least and
greatest numbers, bounds on the size of sets, and two forms of induction.
`NumberInduction` and `StepByStep` take the *set* of numbers that have a property in
place of the property, because no prover installed can instantiate a theorem that
takes an operator. With them recursive functions over data can be reasoned about
after all: what `TurnsThat`, `Readable`, `Seen`, `Accepts` and `Within` compute is
proved where a theorem depends on it.

### What the proofs changed in the model

- `Workspace`: two guards of a `CASE` overlapped, which TLC resolves by order and the
  language does not; they are exclusive now.
- `ToolGate`: `AcceptedConforms` said too much. An `enum` at the top of a schema is
  accepted and never looked at (section 3); the proof of `CheckIsSound` failed there,
  and the instance then got a schema for which TLC finds it.
- `ToolArguments`, `ToolRegistry`, `ToolGate`: their assumptions were implicit, and a
  recursion was unbounded (`MaxNesting`).
- `OutputsSentOnce` was restated: it names the newest observations, and asks for all
  of them only while nothing was trimmed or lost.

### What is not proved

`RunEnds` and `CallsReturn`, because liveness under fairness, and `ENABLED` with it,
is out of the prover's reach: TLC checks them. `StepsAreCounted` and `CallsGoForward`
prove that neither can go on for ever without ending. All other properties of the passing
runs are theorems. `RunLogTypeOK` is proved and not part of a run.

What `NodeValid` decides about a schema is used only as far as the check of arguments
needs it.


## 5. Where code and documents disagree

The first four are each shown by a run that violates the property named, without any
fault. The other three are in the model, without a run of their own.

- `GoalInEveryRequest` (`context_goal`; `core/llm.py:634`). Trimming keeps up to
  50 leading anchors and the newest items. With `session_context_turns` of 50 or
  more, and that many turns, the goal comes after the anchors and is dropped in
  a long run, while the oldest turns of the session stay.
- `OutputsCarryProviderId` (`context_callid`; `core/llm.py:494`). A `call_id` is
  stripped when it is parsed, and the output is sent under the stripped value;
  the function call goes back as the provider wrote it.
- `OlderTurnsSummarized` (`session_longturns`; `core/session.py:285`). A summary
  lists its turns oldest first and is cut at 4096 characters when it is loaded:
  with long turns the newest 17 of the 40 older turns are neither summarized nor
  shown.
- `ManagedServersRecorded` (`server_sameid`; `server_manager.py:211`). A start
  with the `server_id` of a server that runs replaces its record and leaves the
  server running, unrecorded.
- A denial (`core/loop.py`, `RefusalEndsTheRun`).
  `docs/superpowers/specs/2026-04-23-local-cli-agent-design.md:348-350` says
  "Denial becomes a normal observation so the model can either choose another path
  or stop". The same document says "Stop on final answer, max steps, blocked action,
  denied confirmation" (lines 210-211) and "Agent loop stops on max steps, blocked
  action, and denied confirmation" (line 459), and so does the code: the denial is an
  observation, and the run ends with it, so the model never answers it. The property
  states what the code and lines 210 and 459 say.
- A check path that is not ASCII (`server_manager.py:184-192`; `WaitRaises` in
  `ServerManager`). `urlopen` raises `UnicodeEncodeError`, which is none of the errors
  `_wait_for_http` catches, so that lines 100-101 do not terminate the process that
  was started. It serves on and no record names it, while `src/README.md:112` says
  that managed servers are "verified with an HTTP request, and recorded".
  `LiveServersRecorded` excepts these servers.
- An `&` at a word (`policy/permissions.py:269`; `StandsAlone` in `PermissionPolicy`).
  All other detectors take `&` for the end of a segment; the one for recursive
  deletes takes only `;` and `|` for the end of a word. `rm -r build` is
  blocked, `true && rm -r build` too, `true&&rm -r build` is not. `PolicyOrdered`
  therefore speaks of commands that are put together with something free between
  them.


## 6. What is not modelled

- The text of anything: reasons, answers, previews, redaction of secrets, the
  display commands. The permission policy's regular expressions and its
  normalization of words: a token of the model stands for a class of words.
- Bounds in bytes and characters on what is stored, logged or sent (a preview
  replaces it), and limits of depth. The number of items is modelled where it is
  read again: in what a tool or the model is given (`ItemBounds`), in the context,
  and in the observations of a logged snapshot. That other lists in the log are cut
  to 200 items as well is not modelled: no reader counts them.
- In the policy: a recursive flag of one letter (`-rf`, `-fr`) that has something
  stuck to it, which the detector may still know or not.
- In an output of the model: more than one item that is no call.
- In the registry: names and descriptions, the size and depth of a schema, the
  provenance of a tool. A build that fails ends the command, so that what it
  leaves in `sys.modules` is not told apart.
- In the workspace: symbolic links, directories in directories, text encodings,
  the truncation of the output of a command, Windows. A command makes up no
  temporary file of its own with a name like those of `write_file`.
- In `ServerManager`: Windows, and the checks of roots and paths, which are one
  choice (the command ends); of a check path only whether it can be sent. After a read of `servers.json` in the middle of
  another's write the reader sees no rows: partial text of a write is modelled
  for failed writes only.
- Data tools: one query over one file, without state that a later call sees.
- Evaluation, but for the registries it builds: a scripted model and comparisons,
  both pure. Configuration and tracing: no behaviour of their own over time.


## 7. Plan

Done: all components that keep state, with the policy and the checks of
arguments, each with its run; theorems for every safety and action property of
the passing runs, and for the half of termination that needs no fairness.

Next, in this order:

1. Abstract specifications for two more parts, as `RunContract` is for the loop: a
   workspace in which a file is replaced in one step, implemented by `write_file`;
   a session to which turns are added, implemented by the transcript.
2. The managed servers: that a command takes a bounded number of steps, and what
   holds of the registry after a crash.
3. `ToolRegistry`: that `NodeValid` accepts exactly the schemas of which every node
   is valid by itself.
