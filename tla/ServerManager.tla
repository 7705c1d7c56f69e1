----------------------------- MODULE ServerManager -----------------------------
(***************************************************************************)
(* ServerManager (server_manager.py) and its callers, the server tools of  *)
(* a run and the commands of the CLI: static servers run as detached       *)
(* processes, and servers.json is the only thing that remembers them.      *)
(*                                                                         *)
(* Every command is a process of its own: the registry is read, changed in *)
(* memory and written back without a lock, and the write truncates the     *)
(* file first.  Processes, ports and pids belong to the operating system,  *)
(* which other programs use as well.                                       *)
(***************************************************************************)
EXTENDS Integers, FiniteSets

CONSTANTS
    Managers,     \* the processes that issue commands, one at a time each
    ServerIds,    \* given by the caller or drawn at random
    Pids,
    LastPort,     \* 65535: ports are 1..LastPort
    CheckPaths,   \* the paths callers ask to be fetched, by their characters
    NoPid,
    MaxCommands,  \* bound on the commands issued
    MaxFaults     \* bound on crashes and failed writes of a manager

ASSUME ServerAssumption ==
    /\ LastPort \in Nat \ {0}
    /\ CheckPaths \subseteq {"ascii", "other"}
    /\ MaxCommands \in Nat /\ MaxFaults \in Nat
    /\ NoPid \notin Pids

Ports == 1..LastPort
NoPort == 0

VARIABLES
    registry,  \* rows of servers.json: a set of records
    readable,  \* is servers.json valid JSON?  (Empty or absent: no rows.)
    process,   \* the operating system's processes, by pid
    command,   \* what each manager is doing
    commands, faults,  \* the bounds
    known,     \* history: the ids that were ever recorded
    orderly,   \* history: no crash, no overlap, no live record replaced
    abandoned  \* history: the servers whose start ended by an error in the wait

vars == <<registry, readable, process, command, commands, faults, known, orderly, abandoned>>

Record == [id : ServerIds, pid : Pids, port : Ports, status : {"running", "stopped"}]

Process == [kind : {"none", "starting", "serving", "ending", "foreign"},
            port : Ports \cup {NoPort}]

NoProcess == [kind |-> "none", port |-> NoPort]

Idle == [pc |-> "idle", op |-> "none", id |-> "none", path |-> "none",
         port |-> NoPort, pid |-> NoPid, rows |-> {}]

Is(pid, kinds) == process[pid].kind \in kinds
Live(pid) == Is(pid, {"starting", "serving"})

\* A process that is starting has not bound its port yet.
Taken(port) == \E pid \in Pids : ~Is(pid, {"starting"}) /\ process[pid].port = port
At(m, pc) == command[m].pc = pc
Goto(m, pc) == command' = [command EXCEPT ![m].pc = pc]
EndCommand(m) == command' = [command EXCEPT ![m] = Idle]

\* A child of a running command is not reaped: its pid is not given away.
FreePids ==
    {pid \in Pids : /\ Is(pid, {"none"})
                    /\ \A m \in Managers : command[m].op = "start" => command[m].pid # pid}

\* SIGTERM to the group of pid.
Signal(pid) ==
    process' = [process EXCEPT ![pid] =
        CASE Is(pid, {"starting"}) -> [kind |-> "ending", port |-> NoPort]
          [] Is(pid, {"serving"})  -> [@ EXCEPT !.kind = "ending"]
          [] OTHER                 -> @]

RecordOf(rows, id) == {r \in rows : r.id = id}

Init ==
    /\ registry = {} /\ readable = TRUE
    /\ process = [pid \in Pids |-> NoProcess]
    /\ command = [m \in Managers |-> Idle]
    /\ commands = 0 /\ faults = 0
    /\ known = {} /\ orderly = TRUE /\ abandoned = {}

(***************************************************************************)
(* Commands.  A restart stops the server and starts it again with the      *)
(* values of its record, whose path has been fetched once: it is ASCII.    *)
(***************************************************************************)
Issue(m, op, id, path, port) ==
    /\ At(m, "idle")
    /\ commands < MaxCommands
    /\ commands' = commands + 1
    /\ command' = [command EXCEPT
         ![m] = [Idle EXCEPT !.pc = IF op = "start" THEN "find" ELSE "look up",
                             !.op = op, !.id = id, !.path = path, !.port = port]]
    /\ UNCHANGED <<registry, readable, process, faults, known, orderly, abandoned>>

IssueStart(m) ==
    \E id \in ServerIds, path \in CheckPaths, port \in Ports :
        Issue(m, "start", id, path, port)
IssueStop(m) == \E id \in ServerIds : Issue(m, "stop", id, "ascii", NoPort)
IssueRestart(m) == \E id \in ServerIds : Issue(m, "restart", id, "ascii", NoPort)

(***************************************************************************)
(* start_static_server.                                                    *)
(***************************************************************************)
\* Seeded fault: one port too many.
FaultCandidates(port) == port..(LastPort + 1)

Candidates(port) == port..LastPort

\* _find_port binds and closes again: the port is not reserved.  The command
\* also ends if its root or path does not exist (any more).
FindPort(m) ==
    /\ At(m, "find")
    /\ LET free == {p \in Candidates(command[m].port) : ~Taken(p)}
       IN  \/ EndCommand(m)
           \/ \E p \in free :
                /\ \A q \in free : p <= q
                /\ command' = [command EXCEPT ![m].port = p, ![m].pc = "spawn"]
    /\ UNCHANGED <<registry, readable, process, commands, faults, known, orderly, abandoned>>

Spawn(m) ==
    /\ At(m, "spawn")
    /\ \E pid \in FreePids :
         /\ process' = [process EXCEPT ![pid] = [kind |-> "starting",
                                                 port |-> command[m].port]]
         /\ command' = [command EXCEPT ![m].pid = pid, ![m].pc = "wait"]
         /\ abandoned' = abandoned \ {pid}
    /\ UNCHANGED <<registry, readable, commands, faults, known, orderly>>

\* _wait_for_http: whoever listens on the port may answer.
Reachable(m) ==
    /\ At(m, "wait") /\ command[m].path = "ascii"
    /\ Taken(command[m].port)
    /\ Goto(m, "load")
    /\ UNCHANGED <<registry, readable, process, commands, faults, known, orderly, abandoned>>

\* Seeded fault: the error is raised before the process is terminated.
FaultUnreachable(m) ==
    /\ At(m, "wait") /\ command[m].path = "ascii"
    /\ EndCommand(m)
    /\ UNCHANGED <<registry, readable, process, commands, faults, known, orderly, abandoned>>

\* Five seconds without an answer, which a slow machine always may need, or an
\* answer that is no success.
Unreachable(m) ==
    /\ At(m, "wait") /\ command[m].path = "ascii"
    /\ Signal(command[m].pid)
    /\ EndCommand(m)
    /\ UNCHANGED <<registry, readable, commands, faults, known, orderly, abandoned>>

\* urlopen cannot encode the path: UnicodeEncodeError is none of the errors
\* that are caught, and ends the command before the process is terminated.
WaitRaises(m) ==
    /\ At(m, "wait") /\ command[m].path = "other"
    /\ abandoned' = abandoned \cup {command[m].pid}
    /\ EndCommand(m)
    /\ UNCHANGED <<registry, readable, process, commands, faults, known, orderly>>

(***************************************************************************)
(* The registry: _load_records, the change, _save_records (write_text).    *)
(***************************************************************************)
\* Some other command has loaded the registry and not written it back.
Overlap(m) == \E other \in Managers \ {m} : command[other].pc \in {"kill", "truncate", "write"}

\* The server of the row to be replaced was neither stopped nor did it end.
ReplacesLive(m) ==
    \E r \in RecordOf(registry, command[m].id) : r.status = "running" /\ Live(r.pid)

\* _upsert_record; a registry that cannot be read raises.
LoadToRecord(m) ==
    /\ At(m, "load")
    /\ IF readable
       THEN /\ command' = [command EXCEPT ![m].rows = registry, ![m].pc = "truncate"]
            /\ orderly' = (orderly /\ ~Overlap(m) /\ ~ReplacesLive(m))
       ELSE /\ EndCommand(m)
            /\ orderly' = FALSE
    /\ UNCHANGED <<registry, readable, process, commands, faults, known, abandoned>>

\* stop_server: an unknown id raises.
LookUp(m) ==
    /\ At(m, "look up")
    /\ IF readable /\ RecordOf(registry, command[m].id) # {}
       THEN \E r \in RecordOf(registry, command[m].id) :
              /\ command' = [command EXCEPT ![m].rows = registry, ![m].pid = r.pid,
                                            ![m].port = r.port, ![m].pc = "kill"]
              /\ orderly' = (orderly /\ ~Overlap(m))
       ELSE EndCommand(m) /\ UNCHANGED orderly
    /\ UNCHANGED <<registry, readable, process, commands, faults, known, abandoned>>

\* Whatever has the recorded pid now is asked to end; another program is the
\* leader of a group only sometimes.
Kill(m) ==
    /\ At(m, "kill")
    /\ \/ Signal(command[m].pid)
       \/ /\ Is(command[m].pid, {"foreign"})
          /\ process' = [process EXCEPT ![command[m].pid].kind = "ending"]
    /\ Goto(m, "truncate")
    /\ UNCHANGED <<registry, readable, commands, faults, known, orderly, abandoned>>

Truncate(m) ==
    /\ At(m, "truncate")
    /\ registry' = {}
    /\ readable' = TRUE
    /\ Goto(m, "write")
    /\ UNCHANGED <<process, commands, faults, known, orderly, abandoned>>

NewRecord(m) == [id |-> command[m].id, pid |-> command[m].pid,
                 port |-> command[m].port, status |-> "running"]

\* Seeded faults: the new record replaces the registry; it is appended as if
\* its id were new; the stopped record is removed.
FaultUpdatedOnlyNew(m) ==
    IF command[m].op = "start"
    THEN {NewRecord(m)}
    ELSE {IF r.id = command[m].id THEN [r EXCEPT !.status = "stopped"] ELSE r :
            r \in command[m].rows}

FaultUpdatedAppend(m) ==
    IF command[m].op = "start"
    THEN command[m].rows \cup {NewRecord(m)}
    ELSE {IF r.id = command[m].id THEN [r EXCEPT !.status = "stopped"] ELSE r :
            r \in command[m].rows}

Updated(m) ==
    IF command[m].op = "start"
    THEN (command[m].rows \ RecordOf(command[m].rows, command[m].id)) \cup {NewRecord(m)}
    ELSE {IF r.id = command[m].id THEN [r EXCEPT !.status = "stopped"] ELSE r :
            r \in command[m].rows}

\* The second half of a restart is a start under the same id.
Write(m) ==
    /\ At(m, "write")
    /\ registry' = Updated(m)
    /\ known' = known \cup {r.id : r \in registry'}
    /\ IF command[m].op = "restart"
       THEN command' = [command EXCEPT ![m] = [@ EXCEPT !.pc = "find", !.op = "start",
                                                        !.pid = NoPid, !.rows = {}]]
       ELSE EndCommand(m)
    /\ UNCHANGED <<readable, process, commands, faults, orderly, abandoned>>

(***************************************************************************)
(* Faults, and the operating system.                                       *)
(***************************************************************************)
Fault ==
    /\ faults < MaxFaults
    /\ faults' = faults + 1
    /\ orderly' = FALSE

\* The manager is killed, or its user presses Ctrl-C.
Crash(m) ==
    /\ ~At(m, "idle")
    /\ Fault
    /\ EndCommand(m)
    /\ UNCHANGED <<registry, readable, process, commands, known, abandoned>>

\* The disk is full: a part of the text was written.
WriteFails(m) ==
    /\ At(m, "write")
    /\ Fault
    /\ readable' = FALSE
    /\ EndCommand(m)
    /\ UNCHANGED <<registry, process, commands, known, abandoned>>

\* http.server binds its port, or ends if it is taken by then.
Bind(pid) ==
    /\ Is(pid, {"starting"})
    /\ process' = [process EXCEPT ![pid] =
         IF Taken(@.port) THEN NoProcess ELSE [@ EXCEPT !.kind = "serving"]]
    /\ UNCHANGED <<registry, readable, command, commands, faults, known, orderly, abandoned>>

\* A process ends, asked or of itself.
Exit(pid) ==
    /\ ~Is(pid, {"none"})
    /\ process' = [process EXCEPT ![pid] = NoProcess]
    /\ UNCHANGED <<registry, readable, command, commands, faults, known, orderly, abandoned>>

\* Another program is started, perhaps one that listens on a port.
StartForeign(pid) ==
    /\ pid \in FreePids
    /\ \E port \in {NoPort} \cup {p \in Ports : ~Taken(p)} :
         process' = [process EXCEPT ![pid] = [kind |-> "foreign", port |-> port]]
    /\ UNCHANGED <<registry, readable, command, commands, faults, known, orderly, abandoned>>

Next ==
    \/ \E m \in Managers :
         \/ IssueStart(m) \/ IssueStop(m) \/ IssueRestart(m)
         \/ FindPort(m) \/ Spawn(m) \/ Reachable(m) \/ Unreachable(m) \/ WaitRaises(m)
         \/ LoadToRecord(m) \/ LookUp(m) \/ Kill(m) \/ Truncate(m) \/ Write(m)
         \/ Crash(m) \/ WriteFails(m)
    \/ \E pid \in Pids : Bind(pid) \/ Exit(pid) \/ StartForeign(pid)

Spec == Init /\ [][Next]_vars

-----------------------------------------------------------------------------
(***************************************************************************)
(* Properties.                                                             *)
(***************************************************************************)
PCs == {"idle", "find", "spawn", "wait", "load", "look up", "kill", "truncate", "write"}

Command == [pc : PCs, op : {"none", "start", "stop", "restart"},
            id : ServerIds \cup {"none"}, path : {"none", "ascii", "other"},
            port : Ports \cup {NoPort},
            pid : Pids \cup {NoPid}, rows : SUBSET Record]

\* The registry holds records, and no port is beyond the last one.
TypeOK ==
    /\ registry \subseteq Record
    /\ readable \in BOOLEAN /\ orderly \in BOOLEAN
    /\ process \in [Pids -> Process]
    /\ command \in [Managers -> Command]
    /\ commands \in 0..MaxCommands /\ faults \in 0..MaxFaults
    /\ known \subseteq ServerIds /\ abandoned \subseteq Pids

\* The rows a reader of the registry finds once the write under way is done.
Rows == registry \cup UNION {command[m].rows : m \in {n \in Managers : At(n, "write")}}

StartedBy(m, pid) ==
    command[m].op = "start" /\ command[m].pid = pid

Recorded(pid) == \E r \in Rows : r.pid = pid /\ r.status = "running"

\* However commands follow each other and overlap (short of two of them being
\* between reading and writing the registry), a server that was not asked to
\* end is recorded as running, or a command is just starting it: "agent
\* servers" shows it and "agent stop-server" reaches it.  The exception is a
\* server whose start ended by an error that _wait_for_http does not catch: it
\* runs on, and nothing remembers it.
LiveServersRecorded ==
    orderly => \A pid \in Pids :
        Live(pid) => Recorded(pid) \/ pid \in abandoned
                                   \/ \E m \in Managers : StartedBy(m, pid)

\* The same commands never lose a row: an id that was recorded once, running
\* or stopped, can still be restarted.
RecordsKept == orderly => known \subseteq {r.id : r \in Rows}

\* No id has two rows, however writes overlap or fail: stop_server, which takes
\* the first row of an id and rewrites all of them, relies on it.
IdsAreUnique == \A r, s \in registry : r.id = s.id => r = s

(* What the README says. *)

\* "Managed servers are ... recorded under runs/servers/".
ManagedServersRecorded ==
    \A pid \in Pids :
        Live(pid) => Recorded(pid) \/ \E m \in Managers : StartedBy(m, pid)
==============================================================================
