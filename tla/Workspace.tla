------------------------------- MODULE Workspace -------------------------------
(***************************************************************************)
(* The file, shell and user tools (tools/filesystem.py, shell.py, user.py) *)
(* of several agents that share a workspace, each call let through by the  *)
(* permission policy or by the user who confirms it.                       *)
(*                                                                         *)
(* A tool is a sequence of system calls; between two of them the other     *)
(* agents and the commands started by shell change the tree.  A command    *)
(* may remove and rewrite anything in the tree, without any of the care of *)
(* write_file; its shell may start a child that outlives it.  The tree is  *)
(* as deep as the tools can tell: entries of the root, and entries of one  *)
(* directory.  The temporary files of write_file are entries like others:  *)
(* list_dir shows them, and who has seen one may read it or write to it.   *)
(***************************************************************************)
EXTENDS PermissionPolicy, Integers, FiniteSets

CONSTANTS
    Agents,
    ConfiguredProfiles,   \* the values config.permission_profile is tried with
    ConfirmRisky,         \* config.confirm_risky_actions
    Commands,     \* the commands a model may ask for
    Dir,          \* an entry of the root that is or may become a directory
    Tops,         \* the other entries of the root
    Inner,        \* the entries of Dir
    Root,         \* context.workspace
    Outside,      \* an argument that resolve_workspace_path refuses
    Shell,        \* the author of what a command writes
    MaxEntries,   \* MAX_LIST_DIR_ENTRIES
    MaxCalls,     \* bound on the calls of an agent
    MaxEffects,   \* bound on what commands do to the tree
    MaxFaults     \* bound on full disks, failed unlinks and killed agents

WsCall == Agents \X (1..MaxCalls)

Paths == {Dir} \cup Tops \cup Inner
TempNames == [call : WsCall, dir : {Root, Dir}]   \* .write-<hex>.tmp
Names == Paths \cup TempNames

ASSUME WorkspaceAssumption ==
    /\ ConfiguredProfiles \subseteq Profiles /\ ConfirmRisky \in BOOLEAN
    /\ Dir \notin Tops \cup Inner /\ Tops \cap Inner = {}
    /\ {Root, Outside} \cap Names = {} /\ Paths \cap TempNames = {}
    /\ MaxEntries \in Nat /\ MaxCalls \in Nat /\ MaxEffects \in Nat /\ MaxFaults \in Nat

VARIABLES
    profile,   \* config.permission_profile
    node,      \* the tree
    agent,     \* what each agent is doing
    jobs,      \* the processes of each shell call
    results,   \* history: what the calls returned
    placed,    \* history: calls whose content replaced a file
    effects, faults,   \* the bounds
    leftover,  \* history: write_file calls that did not remove their file
    wanted     \* history: temporary files that write_file was asked to write

bounds == <<effects, faults, leftover, wanted>>
wsVars == <<profile, node, agent, jobs, results, placed, bounds>>

(***************************************************************************)
(* The tree.                                                               *)
(***************************************************************************)
ParentOf(path) ==
    IF path \in TempNames THEN path.dir ELSE IF path \in Inner THEN Dir ELSE Root

Missing == [kind |-> "missing"]
Directory == [kind |-> "dir"]
Content(by, whole, big) == [kind |-> "file", by |-> by, whole |-> whole, big |-> big]

IsDir(path) == path = Root \/ (path # Root /\ node[path].kind = "dir")
Exists(path) == path = Root \/ (path # Root /\ node[path].kind # "missing")
IsFile(path) == Exists(path) /\ ~IsDir(path)

Children(path) == {p \in Names : ParentOf(p) = path /\ Exists(p)}

(***************************************************************************)
(* Agents and calls.                                                       *)
(***************************************************************************)
\* Between two calls, n of them behind.
Resting(n) == [pc |-> "idle", n |-> n, tool |-> "none", path |-> Root, create |-> FALSE,
               big |-> FALSE, entries |-> {}, outcome |-> "none"]

At(a, pc) == agent[a].pc = pc
Go(a, pc) == agent' = [agent EXCEPT ![a].pc = pc]
CallOf(a) == <<a, agent[a].n>>
Temp(a) == [call |-> CallOf(a), dir |-> ParentOf(agent[a].path)]

Result(a, outcome, content) ==
    [call |-> CallOf(a), tool |-> agent[a].tool, path |-> agent[a].path,
     outcome |-> outcome, content |-> content]

\* The tool returns.
ReturnWith(a, outcome, content) ==
    /\ results' = results \cup {Result(a, outcome, content)}
    /\ agent' = [agent EXCEPT ![a] = Resting(agent[a].n)]

Return(a, outcome) == ReturnWith(a, outcome, Missing)

\* An error of a tool that changed nothing since its last step.
Fail(a) ==
    /\ Return(a, "failed")
    /\ UNCHANGED <<profile, node, jobs, placed, bounds>>

NoChange == UNCHANGED <<profile, node, jobs, results, placed, bounds>>

WsInit ==
    /\ profile \in ConfiguredProfiles
    /\ \E tree \in [Paths -> {Missing, Directory, Content(Shell, TRUE, FALSE)}] :
         /\ \A p \in Tops \cup Inner : tree[p] # Directory
         /\ \A p \in Inner : tree[Dir] # Directory => tree[p] = Missing
         /\ node = [p \in Names |-> IF p \in Paths THEN tree[p] ELSE Missing]
    /\ agent = [a \in Agents |-> Resting(0)]
    /\ jobs = <<>>
    /\ results = {} /\ placed = {}
    /\ effects = 0 /\ faults = 0 /\ leftover = 0 /\ wanted = {}

\* What a tool is registered with.
Risk == [write_file |-> "write", read_file |-> "read", list_dir |-> "read",
         shell |-> "shell", ask_user |-> "interactive"]

\* The user may say yes.
LetThrough(tool, command) ==
    Decide(profile, ConfirmRisky, tool, Risk[tool], command) \in {"allow", "confirm"}

Begin(a, tool, pc, path, create, big) ==
    /\ At(a, "idle")
    /\ agent[a].n < MaxCalls
    /\ agent' = [agent EXCEPT ![a] = [pc |-> pc, n |-> agent[a].n + 1, tool |-> tool,
                    path |-> path, create |-> create, big |-> big, entries |-> {},
                    outcome |-> "none"]]

\* The name of a temporary file is known to who has seen it listed.
Nameable == Paths \cup {Outside} \cup {t \in TempNames : Exists(t)}

CallWriteFile(a) ==
    /\ LetThrough("write_file", InvalidCommand)
    /\ \E path \in Nameable, create, big \in BOOLEAN :
         /\ Begin(a, "write_file", "parent", path, create, big)
         /\ wanted' = wanted \cup ({path} \cap TempNames)
    /\ UNCHANGED <<profile, node, jobs, results, placed, effects, faults, leftover>>

CallReader(a) ==
    /\ \E path \in Nameable :
         \/ /\ LetThrough("read_file", InvalidCommand)
            /\ Begin(a, "read_file", "look", path, FALSE, FALSE)
         \/ /\ LetThrough("list_dir", InvalidCommand)
            /\ Begin(a, "list_dir", "enter", path, FALSE, FALSE)
    /\ NoChange

CallShell(a) ==
    /\ \E command \in Commands \cup {InvalidCommand} : LetThrough("shell", command)
    /\ Begin(a, "shell", "launch", Root, FALSE, FALSE)
    /\ NoChange

CallUser(a) ==
    /\ LetThrough("ask_user", InvalidCommand)
    /\ Begin(a, "ask_user", "question", Root, FALSE, FALSE)
    /\ NoChange

\* _string_arg, _bool_arg, resolve_workspace_path.
RefusePath(a) ==
    /\ agent[a].pc \in {"parent", "look", "enter"}
    /\ agent[a].path = Outside
    /\ Fail(a)

OnPath(a, pc) == At(a, pc) /\ agent[a].path # Outside

(***************************************************************************)
(* write_file                                                              *)
(***************************************************************************)
CheckParent(a) ==
    /\ OnPath(a, "parent")
    /\ LET parent == ParentOf(agent[a].path) IN
       \/ IsDir(parent) /\ Go(a, "target") /\ NoChange
       \/ ~Exists(parent) /\ agent[a].create /\ Go(a, "mkdir") /\ NoChange
       \/ ~Exists(parent) /\ ~agent[a].create /\ Fail(a)
       \/ IsFile(parent) /\ Fail(a)

\* exist_ok: a directory made in the meantime will do, a file will not.
MakeParent(a) ==
    /\ At(a, "mkdir")
    /\ LET parent == ParentOf(agent[a].path) IN
       \/ /\ ~IsFile(parent)
          /\ node' = IF parent = Root THEN node ELSE [node EXCEPT ![parent] = Directory]
          /\ Go(a, "target")
          /\ UNCHANGED <<profile, jobs, results, placed, bounds>>
       \/ IsFile(parent) /\ Fail(a)

\* The size of the content is looked at last: the parents have been made.
CheckTarget(a) ==
    /\ At(a, "target")
    /\ IF IsDir(agent[a].path) \/ agent[a].big THEN Fail(a) ELSE Go(a, "create") /\ NoChange

Settle(a, outcome) == agent' = [agent EXCEPT ![a].pc = "cleanup", ![a].outcome = outcome]

Half(a) == Content(CallOf(a), FALSE, FALSE)

\* Seeded fault: the content is written into the file itself.
FaultCreateTemp(a) ==
    /\ At(a, "create")
    /\ \/ /\ IsDir(ParentOf(agent[a].path)) /\ ~IsDir(agent[a].path)
          /\ node' = [node EXCEPT ![agent[a].path] = Half(a), ![Temp(a)] = Half(a)]
          /\ Go(a, "fill")
       \/ /\ ~IsDir(ParentOf(agent[a].path)) \/ IsDir(agent[a].path)
          /\ Settle(a, "failed")
          /\ UNCHANGED node
    /\ UNCHANGED <<profile, jobs, results, placed, bounds>>

\* Seeded fault: the parent is taken to be there still.
FaultCreateAnyway(a) ==
    /\ At(a, "create")
    /\ node' = [node EXCEPT ![Temp(a)] = Half(a)]
    /\ Go(a, "fill")
    /\ UNCHANGED <<profile, jobs, results, placed, bounds>>

\* write_bytes opens the file, then fills it.
CreateTemp(a) ==
    /\ At(a, "create")
    /\ \/ /\ IsDir(ParentOf(agent[a].path))
          /\ node' = [node EXCEPT ![Temp(a)] = Half(a)]
          /\ Go(a, "fill")
       \/ /\ ~IsDir(ParentOf(agent[a].path))
          /\ Settle(a, "failed")
          /\ UNCHANGED node
    /\ UNCHANGED <<profile, jobs, results, placed, bounds>>

\* What is written goes to the file that was opened, whatever has its name now.
FillTemp(a) ==
    /\ At(a, "fill")
    /\ \/ /\ node' = IF node[Temp(a)] = Half(a) THEN [node EXCEPT ![Temp(a)].whole = TRUE]
                    ELSE node
          /\ Go(a, "replace")
          /\ UNCHANGED faults
       \/ /\ faults < MaxFaults /\ faults' = faults + 1
          /\ Settle(a, "failed")
          /\ UNCHANGED node
    /\ UNCHANGED <<profile, jobs, results, placed, effects, leftover, wanted>>

\* The temporary file may be gone, with its directory or without; the target
\* may have become a directory.
MayReplace(a) == IsFile(Temp(a)) /\ ~IsDir(agent[a].path)

\* Seeded fault: the error of replace is swallowed.
FaultReplaceTarget(a) ==
    /\ At(a, "replace")
    /\ Settle(a, "ok")
    /\ IF MayReplace(a)
       THEN /\ node' = [node EXCEPT ![agent[a].path] = node[Temp(a)],
                                    ![Temp(a)] = Missing]
            /\ placed' = placed \cup {CallOf(a)}
       ELSE UNCHANGED <<node, placed>>
    /\ UNCHANGED <<profile, jobs, results, bounds>>

ReplaceTarget(a) ==
    /\ At(a, "replace")
    /\ \/ /\ MayReplace(a)
          /\ node' = [node EXCEPT ![agent[a].path] = node[Temp(a)], ![Temp(a)] = Missing]
          /\ placed' = placed \cup {CallOf(a)}
          /\ Settle(a, "ok")
       \/ /\ ~MayReplace(a)
          /\ Settle(a, "failed")
          /\ UNCHANGED <<node, placed>>
    /\ UNCHANGED <<profile, jobs, results, bounds>>

Unlinked(a) == [node EXCEPT ![Temp(a)] = Missing]

\* Seeded fault: the temporary file is removed only after a success.
FaultCleanUp(a) ==
    /\ At(a, "cleanup")
    /\ node' = IF agent[a].outcome = "ok" THEN Unlinked(a) ELSE node
    /\ Return(a, agent[a].outcome)
    /\ UNCHANGED <<profile, jobs, placed, bounds>>

\* The temporary file stays.
LeftBehind(a) == leftover' = leftover + (IF Exists(Temp(a)) THEN 1 ELSE 0)

\* finally: an error of unlink is swallowed, the file stays.
CleanUp(a) ==
    /\ At(a, "cleanup")
    /\ \/ node' = Unlinked(a) /\ UNCHANGED <<faults, leftover>>
       \/ /\ Exists(Temp(a)) /\ faults < MaxFaults
          /\ faults' = faults + 1 /\ LeftBehind(a)
          /\ UNCHANGED node
    /\ IF agent[a].outcome = "interrupted"
       THEN Go(a, "dead") /\ UNCHANGED results
       ELSE Return(a, agent[a].outcome)
    /\ UNCHANGED <<profile, jobs, placed, effects, wanted>>

(***************************************************************************)
(* read_file, list_dir                                                     *)
(***************************************************************************)
LookAtFile(a) ==
    /\ OnPath(a, "look")
    /\ IF IsFile(agent[a].path) /\ ~node[agent[a].path].big
       THEN Go(a, "read") /\ NoChange
       ELSE Fail(a)

\* The file may have gone or grown since; its bytes may be no text (write_file
\* accepts a NUL, read_file does not).
ReadContent(a) ==
    /\ At(a, "read")
    /\ LET content == node[agent[a].path] IN
       \/ /\ IsFile(agent[a].path) /\ ~content.big
          /\ ReturnWith(a, "ok", content)
          /\ UNCHANGED <<profile, node, jobs, placed, bounds>>
       \/ Fail(a)

EnterDir(a) ==
    /\ OnPath(a, "enter")
    /\ IF IsDir(agent[a].path) THEN Go(a, "iterate") /\ NoChange ELSE Fail(a)

\* All children, the temporary files of others among them.
IterateDir(a) ==
    /\ At(a, "iterate")
    /\ IF IsDir(agent[a].path)
       THEN /\ agent' = [agent EXCEPT ![a].pc = "classify",
                                      ![a].entries = Children(agent[a].path)]
            /\ NoChange
       ELSE Fail(a)

\* The first MaxEntries are classified one after the other; what has gone since
\* is listed as a file.
ClassifyEntries(a) ==
    /\ At(a, "classify")
    /\ Return(a, IF Cardinality(agent[a].entries) > MaxEntries THEN "truncated" ELSE "ok")
    /\ UNCHANGED <<profile, node, jobs, placed, bounds>>

\* An OSError that the tree does not explain: permissions, a full disk.
SystemFails(a) ==
    \/ /\ agent[a].pc \in {"parent", "mkdir", "target", "look", "enter", "iterate", "classify"}
       /\ Fail(a)
    \/ /\ agent[a].pc \in {"create", "replace"}
       /\ Settle(a, "failed")
       /\ NoChange

(***************************************************************************)
(* shell                                                                   *)
(***************************************************************************)
Job(a) == jobs[CallOf(a)]
WithJob(call, job) ==
    jobs' = [c \in DOMAIN jobs \cup {call} |-> IF c = call THEN job ELSE jobs[c]]

\* The command is invalid, or the shell cannot be started (an OSError that is
\* reported; a ValueError for a NUL in the command reaches the loop).
LaunchFails(a) == At(a, "launch") /\ Fail(a)

Launch(a) ==
    /\ At(a, "launch")
    /\ WithJob(CallOf(a), [shell |-> TRUE, child |-> "none"])
    /\ Go(a, "wait")
    /\ UNCHANGED <<profile, node, results, placed, bounds>>

Lives(call) == jobs[call].shell \/ jobs[call].child \in {"attached", "detached"}

\* A child that keeps the pipes of the command is attached.
StartChild(call) ==
    /\ jobs[call].shell /\ jobs[call].child = "none"
    /\ \E child \in {"attached", "detached"} : WithJob(call, [jobs[call] EXCEPT !.child = child])
    /\ UNCHANGED <<profile, node, agent, results, placed, bounds>>

ShellExits(call) ==
    /\ jobs[call].shell
    /\ WithJob(call, [jobs[call] EXCEPT !.shell = FALSE])
    /\ UNCHANGED <<profile, node, agent, results, placed, bounds>>

ChildExits(call) ==
    /\ jobs[call].child \in {"attached", "detached"}
    /\ WithJob(call, [jobs[call] EXCEPT !.child = "gone"])
    /\ UNCHANGED <<profile, node, agent, results, placed, bounds>>

\* rm -r, mkdir, and any way to write a file, half of it at first; what a
\* command moves or copies it has written.  It makes up no temporary file.
Effect(call) ==
    /\ Lives(call)
    /\ effects < MaxEffects
    /\ effects' = effects + 1
    /\ \E path \in Names :
         \/ /\ Exists(path)
            /\ node' = [p \in Names |-> IF p = path \/ ParentOf(p) = path THEN Missing
                                        ELSE node[p]]
         \/ /\ ~Exists(path) /\ path = Dir
            /\ node' = [node EXCEPT ![path] = Directory]
         \/ /\ IsFile(path) \/ (path \in Paths /\ ~Exists(path) /\ IsDir(ParentOf(path)))
            /\ \E whole, big \in BOOLEAN :
                 node' = [node EXCEPT ![path] = Content(Shell, whole, big)]
    /\ UNCHANGED <<profile, agent, jobs, results, placed, faults, leftover, wanted>>

\* communicate returns when the shell has exited and nobody holds its pipes.
CommandEnds(a) ==
    /\ At(a, "wait")
    /\ ~Job(a).shell /\ Job(a).child # "attached"
    /\ Return(a, "exited")
    /\ UNCHANGED <<profile, node, jobs, placed, bounds>>

\* Seeded fault: the deadline covers the pipes, not the shell.
FaultCommandTimesOut(a) ==
    /\ At(a, "wait")
    /\ ~Job(a).shell
    /\ Return(a, "timed out")
    /\ UNCHANGED <<profile, node, jobs, placed, bounds>>

\* subprocess.run kills the shell, and only the shell; an exited shell whose
\* child holds the pipes times out as well.
CommandTimesOut(a) ==
    /\ At(a, "wait")
    /\ WithJob(CallOf(a), [Job(a) EXCEPT !.shell = FALSE])
    /\ Return(a, "timed out")
    /\ UNCHANGED <<profile, node, placed, bounds>>

(***************************************************************************)
(* ask_user                                                                *)
(***************************************************************************)
\* An answer; or a callback that is missing, raises or returns no text.
UserAnswers(a) ==
    /\ At(a, "question")
    /\ \E outcome \in {"ok", "failed"} : Return(a, outcome)
    /\ UNCHANGED <<profile, node, jobs, placed, bounds>>

(***************************************************************************)
(* Ends of an agent.                                                       *)
(***************************************************************************)
Working(a) == agent[a].pc \notin {"idle", "dead"}

\* Ctrl-C: the finally of write_file runs, subprocess.run kills the shell.  One
\* that comes in the finally itself, the first or a second one, may end it
\* before it unlinks.  At the question of ask_user it is an Abort, which the tool
\* reports as a failure.
Interrupt(a) ==
    /\ Working(a) /\ ~At(a, "question")
    /\ faults < MaxFaults
    /\ faults' = faults + 1
    /\ \/ /\ agent[a].pc \in {"fill", "replace", "cleanup"}
          /\ Settle(a, "interrupted")
          /\ UNCHANGED leftover
       \/ /\ agent[a].pc \notin {"fill", "replace"}
          /\ Go(a, "dead")
          /\ IF At(a, "cleanup") THEN LeftBehind(a) ELSE UNCHANGED leftover
    /\ IF At(a, "wait") THEN WithJob(CallOf(a), [Job(a) EXCEPT !.shell = FALSE])
       ELSE UNCHANGED jobs
    /\ UNCHANGED <<profile, node, results, placed, effects, wanted>>

\* The process is killed: nothing of it is cleaned up, its commands run on.
Kill(a) ==
    /\ Working(a)
    /\ faults < MaxFaults
    /\ faults' = faults + 1
    /\ IF agent[a].tool = "write_file" THEN LeftBehind(a) ELSE UNCHANGED leftover
    /\ Go(a, "dead")
    /\ UNCHANGED <<profile, node, jobs, results, placed, effects, wanted>>

(***************************************************************************)
(* Composition.                                                            *)
(***************************************************************************)
FileStep(a) ==
    \/ RefusePath(a)
    \/ CheckParent(a) \/ MakeParent(a) \/ CheckTarget(a) \/ CreateTemp(a) \/ FillTemp(a)
    \/ ReplaceTarget(a) \/ CleanUp(a)
    \/ LookAtFile(a) \/ ReadContent(a)
    \/ EnterDir(a) \/ IterateDir(a) \/ ClassifyEntries(a)
    \/ SystemFails(a)

ShellStep(a) == LaunchFails(a) \/ Launch(a) \/ CommandEnds(a) \/ CommandTimesOut(a)

JobStep ==
    \E call \in DOMAIN jobs :
        StartChild(call) \/ ShellExits(call) \/ ChildExits(call) \/ Effect(call)

AgentStep(a) ==
    \/ CallWriteFile(a) \/ CallReader(a) \/ CallShell(a) \/ CallUser(a)
    \/ FileStep(a) \/ ShellStep(a) \/ UserAnswers(a) \/ Interrupt(a) \/ Kill(a)

AllStill ==
    /\ \A a \in Agents : ~Working(a) /\ (At(a, "dead") \/ agent[a].n = MaxCalls)
    /\ \A call \in DOMAIN jobs : ~Lives(call)
    /\ UNCHANGED wsVars

WsNext == (\E a \in Agents : AgentStep(a)) \/ JobStep \/ AllStill

\* A system call returns, and subprocess.run returns after the time allowed at
\* the latest; a user need not answer, a command need not end.
WsSpec ==
    /\ WsInit /\ [][WsNext]_wsVars
    /\ \A a \in Agents : WF_wsVars(FileStep(a)) /\ WF_wsVars(ShellStep(a))

-----------------------------------------------------------------------------
(***************************************************************************)
(* Properties.                                                             *)
(***************************************************************************)
Node == {Missing, Directory}
        \cup [kind : {"file"}, by : WsCall \cup {Shell}, whole : BOOLEAN, big : BOOLEAN]

\* The variables have their types; entries are in directories only.
WsTypeOK ==
    /\ profile \in ConfiguredProfiles
    /\ node \in [Names -> Node]
    /\ \A p \in Names : Exists(p) => IsDir(ParentOf(p))
    /\ \A a \in Agents : agent[a].n \in 0..MaxCalls
    /\ DOMAIN jobs \subseteq WsCall
    /\ placed \subseteq WsCall /\ wanted \subseteq TempNames
    /\ effects \in 0..MaxEffects /\ faults \in 0..MaxFaults

\* Half of what a write_file writes.
HalfWritten(content) ==
    content.kind = "file" /\ content.by # Shell /\ ~content.whole

\* Half of what a write_file writes is found, and read by read_file, under the
\* name of its temporary file only, never under the name of its target or of
\* any other file, whatever happens between the checks and the use and whoever
\* reads, writes or removes temporary files; nor does read_file return a file
\* that is larger than allowed.
WholeFilesOnly ==
    /\ \A p \in Names : HalfWritten(node[p]) => p \in TempNames /\ p.call = node[p].by
    /\ \A p \in Names : node[p].kind = "file" /\ node[p].by # Shell => ~node[p].big
    /\ \A r \in results : r.content.kind = "file" =>
         /\ ~r.content.big
         /\ HalfWritten(r.content) => r.path \in TempNames /\ r.path.call = r.content.by

\* What a call reported is true: a write_file that succeeded has replaced the
\* file, one that failed has not (at most a directory remains of it); a command
\* that exited leaves nobody behind who holds its pipes, one that timed out no
\* shell: only its children go on.
ResultsTrue ==
    \A r \in results :
        /\ r.tool = "write_file" => ((r.outcome = "ok") <=> (r.call \in placed))
        /\ r.call \in DOMAIN jobs =>
             /\ ~jobs[r.call].shell
             /\ r.outcome = "exited" => jobs[r.call].child # "attached"

Writing == {a \in Agents : agent[a].pc \in {"fill", "replace", "cleanup"}}

\* The workspace holds no more temporary files than writes in progress and
\* writes that were killed, interrupted in their finally, or could not unlink,
\* but for those that a write_file was asked to write.
TempsExplained ==
    Cardinality({t \in TempNames \ wanted : Exists(t)}) <= Cardinality(Writing) + leftover

\* Under the profile read_only nothing an agent does changes the workspace.
ReadOnlyKeepsTree == [][profile = "read_only" => UNCHANGED node]_wsVars

\* Every call of a file tool or of shell returns, or its agent was killed, even
\* if the command, its children and the other agents never stop.
CallsReturn ==
    \A a \in Agents : (Working(a) /\ ~At(a, "question")) ~> (~Working(a) \/ At(a, "question"))
==============================================================================
