--------------------------- MODULE Workspace_proofs ----------------------------
(***************************************************************************)
(* Proofs about Workspace, for any number of agents, calls, paths and      *)
(* commands.                                                               *)
(***************************************************************************)
EXTENDS Workspace, Counting

(***************************************************************************)
(* Types, with what a call knows at each of its steps.                     *)
(***************************************************************************)
Tools == {"none", "write_file", "read_file", "list_dir", "shell", "ask_user"}

WritePlaces == {"parent", "mkdir", "target", "create", "fill", "replace", "cleanup"}
OtherPlaces == {"look", "read", "enter", "iterate", "classify", "launch", "wait", "question"}
Places == {"idle", "dead"} \cup WritePlaces \cup OtherPlaces

AgentType ==
    [pc : Places, n : 0..MaxCalls, tool : Tools, path : Names \cup {Root, Outside},
     create : BOOLEAN, big : BOOLEAN, entries : SUBSET Names,
     outcome : {"none", "ok", "failed", "interrupted"}]

JobType == [shell : BOOLEAN, child : {"none", "attached", "detached", "gone"}]

ResultType ==
    [call : WsCall, tool : Tools, path : Names \cup {Root, Outside}, content : Node,
     outcome : {"ok", "failed", "truncated", "exited", "timed out"}]

\* The tool that is at this place, and that its path has been looked at.
Knows(x) ==
    /\ x.pc \in WritePlaces => x.tool = "write_file"
    /\ x.pc \in {"look", "read"} => x.tool = "read_file"
    /\ x.pc \in {"enter", "iterate", "classify"} => x.tool = "list_dir"
    /\ x.pc \in {"launch", "wait"} => x.tool = "shell"
    /\ x.pc = "question" => x.tool = "ask_user"
    /\ x.pc \in {"parent", "look", "enter"} => x.path \in Names \cup {Outside}
    /\ x.pc \in (WritePlaces \ {"parent"}) \cup {"read", "iterate", "classify"} =>
         x.path \in Names
    /\ x.pc = "cleanup" => x.outcome # "none"
    /\ x.pc # "idle" => x.n >= 1

Known == {x \in AgentType : Knows(x)}

TypeInv ==
    /\ profile \in ConfiguredProfiles
    /\ node \in [Names -> Node]
    /\ agent \in [Agents -> Known]
    /\ DOMAIN jobs \subseteq WsCall
    /\ \A c \in DOMAIN jobs : jobs[c] \in JobType
    /\ results \subseteq ResultType
    /\ placed \subseteq WsCall
    /\ effects \in 0..MaxEffects /\ faults \in 0..MaxFaults /\ leftover \in Nat
    /\ wanted \subseteq TempNames

(***************************************************************************)
(* The tree, and what was read from it.                                    *)
(***************************************************************************)
\* What may be found under a name: half a file of write_file only under that of
\* its temporary file, and nothing of write_file that is too large.
Sound(name, content) ==
    /\ HalfWritten(content) => name \in TempNames /\ name.call = content.by
    /\ content.kind = "file" /\ content.by # Shell => ~content.big

Readable(content) == content.kind = "file" => ~content.big

TreeInv ==
    /\ \A p \in Names : Exists(p) => IsDir(ParentOf(p))
    /\ \A p \in Names : Sound(p, node[p])
    /\ \A r \in results : Sound(r.path, r.content) /\ Readable(r.content)

\* What is to replace a target is whole: nobody else ever writes half a file
\* under the name of the temporary file.
ReadyInv == \A a \in Agents : At(a, "replace") => ~HalfWritten(node[Temp(a)])

(***************************************************************************)
(* Calls: nothing is known yet of one that is still to come; of the one in *)
(* progress nothing was returned, and its place tells what it has done.    *)
(***************************************************************************)
Seen == {r.call : r \in results} \cup placed \cup DOMAIN jobs

InProgress(a) ==
    /\ \A r \in results : r.call # CallOf(a)
    /\ CallOf(a) \in placed => At(a, "cleanup") /\ agent[a].outcome # "failed"
    /\ At(a, "cleanup") /\ agent[a].outcome = "ok" => CallOf(a) \in placed
    /\ CallOf(a) \in DOMAIN jobs <=> At(a, "wait")

CallsInv ==
    /\ \A c \in Seen : c[2] <= agent[c[1]].n
    /\ \A a \in Agents : Working(a) => InProgress(a)
    /\ ResultsTrue

(***************************************************************************)
(* Temporary files without a write in progress.                            *)
(***************************************************************************)
\* The temporary files that no write_file was asked to write.
Temps == {t \in TempNames \ wanted : Exists(t)}

Orphans == Temps \ {Temp(a) : a \in Writing}

TempsInv ==
    /\ IsFiniteSet(Temps) /\ IsFiniteSet(Writing)
    /\ Cardinality(Orphans) <= leftover

\* A temporary file that is the target of a call is wanted.
WantedInv ==
    \A a \in Agents :
        agent[a].tool = "write_file" /\ agent[a].path \in TempNames => agent[a].path \in wanted

\* Under read_only no call that changes anything is let through.
ReadOnlyInv ==
    profile = "read_only" =>
        /\ DOMAIN jobs = {}
        /\ \A a \in Agents : agent[a].tool \notin {"write_file", "shell"}

(***************************************************************************)
(* The kinds of steps.  x is what the agent a is doing after the step.     *)
(***************************************************************************)
Same(a, x) == x.n = agent[a].n /\ x.tool = agent[a].tool /\ x.path = agent[a].path

BeginKind(a, x) ==
    /\ At(a, "idle") /\ x.n = agent[a].n + 1
    /\ x.pc \in {"parent", "look", "enter", "launch", "question"}
    /\ profile = "read_only" => x.tool \notin {"write_file", "shell"}
    /\ UNCHANGED <<profile, node, jobs, results, placed>>

OnKind(a, x) ==
    /\ Working(a) /\ Same(a, x) /\ x.pc # "idle"
    /\ x.pc # "dead" => agent[a].pc # "wait" /\ x.pc # "wait"
    /\ x.pc = "cleanup" =>
         x.outcome = "interrupted" \/ (x.outcome = "failed" /\ ~At(a, "cleanup"))
    /\ At(a, "cleanup") => x.pc \in {"cleanup", "dead"}
    /\ UNCHANGED <<profile, jobs, results, placed>>

PlaceKind(a, x) ==
    /\ At(a, "replace") /\ Same(a, x) /\ x.pc = "cleanup" /\ x.outcome = "ok"
    /\ placed' = placed \cup {CallOf(a)}
    /\ UNCHANGED <<profile, jobs, results>>

LaunchKind(a, x) ==
    /\ At(a, "launch") /\ Same(a, x) /\ x.pc = "wait"
    /\ WithJob(CallOf(a), [shell |-> TRUE, child |-> "none"])
    /\ UNCHANGED <<profile, results, placed>>

ShellKilled(a) == WithJob(CallOf(a), [Job(a) EXCEPT !.shell = FALSE])

StopKind(a, x) ==
    /\ At(a, "wait") /\ Same(a, x) /\ x.pc = "dead"
    /\ ShellKilled(a)
    /\ UNCHANGED <<profile, results, placed>>

Returns(a, r) ==
    /\ r \in ResultType /\ r.call = CallOf(a) /\ r.tool = agent[a].tool
    /\ Sound(r.path, r.content) /\ Readable(r.content)
    /\ At(a, "cleanup") => r.outcome = agent[a].outcome
    /\ agent[a].pc \in WritePlaces \ {"cleanup"} => r.outcome = "failed"
    /\ \/ UNCHANGED jobs /\ (At(a, "wait") => ~Job(a).shell /\ Job(a).child # "attached")
       \/ At(a, "wait") /\ ShellKilled(a) /\ r.outcome # "exited"

EndKind(a, x) ==
    /\ Working(a) /\ x = Resting(agent[a].n)
    /\ \E r \in ResultType : Returns(a, r) /\ results' = results \cup {r}
    /\ UNCHANGED <<profile, placed>>

AgentKind(a, x) ==
    \/ BeginKind(a, x) \/ OnKind(a, x) \/ PlaceKind(a, x)
    \/ LaunchKind(a, x) \/ StopKind(a, x) \/ EndKind(a, x)

\* An agent goes on to another place of its tool.
LEMMA GoesOn ==
    ASSUME TypeInv, NEW a \in Agents, NEW pc \in Places
    PROVE  \E x \in AgentType :
             /\ x.pc = pc /\ Same(a, x) /\ x.outcome = agent[a].outcome
             /\ [agent EXCEPT ![a].pc = pc] = [agent EXCEPT ![a] = x]
  <1>1. agent[a] \in AgentType
    BY DEF TypeInv, Known
  <1>2. agent \in [Agents -> Known]
    BY DEF TypeInv
  <1> DEFINE x == [agent[a] EXCEPT !.pc = pc]
  <1>3. x \in AgentType /\ x.pc = pc /\ Same(a, x) /\ x.outcome = agent[a].outcome
    BY <1>1 DEF AgentType, Same
  <1>4. [agent EXCEPT ![a].pc = pc] = [agent EXCEPT ![a] = x]
    BY <1>2
  <1>. QED  BY <1>3, <1>4

\* write_file has an outcome and goes on to its finally.
LEMMA Settles ==
    ASSUME TypeInv, NEW a \in Agents, NEW outcome \in {"ok", "failed", "interrupted"}
    PROVE  \E x \in AgentType :
             /\ x.pc = "cleanup" /\ Same(a, x) /\ x.outcome = outcome
             /\ [agent EXCEPT ![a].pc = "cleanup", ![a].outcome = outcome]
                  = [agent EXCEPT ![a] = x]
  <1>1. agent[a] \in AgentType /\ agent \in [Agents -> Known]
    BY DEF TypeInv, Known
  <1> DEFINE x == [agent[a] EXCEPT !.pc = "cleanup", !.outcome = outcome]
  <1>2. x \in AgentType /\ x.pc = "cleanup" /\ Same(a, x) /\ x.outcome = outcome
    BY <1>1 DEF AgentType, Same, Places, WritePlaces
  <1>3. [agent EXCEPT ![a].pc = "cleanup", ![a].outcome = outcome] = [agent EXCEPT ![a] = x]
    BY <1>1
  <1>. QED  BY <1>2, <1>3

\* A call that an agent is at has a number.
LEMMA CallNumbers ==
    ASSUME TypeInv, NEW a \in Agents
    PROVE  /\ agent[a] \in AgentType /\ Knows(agent[a])
           /\ agent[a].n \in 0..MaxCalls
           /\ ~At(a, "idle") => CallOf(a) \in WsCall
           /\ Resting(agent[a].n) \in Known
           /\ Missing \in Node /\ Readable(Missing) /\ ~HalfWritten(Missing)
           /\ \A p : Sound(p, Missing)
  <1>1. agent[a] \in AgentType /\ Knows(agent[a])
    BY DEF TypeInv, Known
  <1>2. agent[a].n \in 0..MaxCalls /\ MaxCalls \in Nat
    BY <1>1, WorkspaceAssumption DEF AgentType
  <1>3. ~At(a, "idle") => CallOf(a) \in WsCall
    BY <1>1, <1>2 DEF At, CallOf, WsCall, Knows
  <1>4. Resting(agent[a].n) \in Known
    BY <1>2 DEF Resting, Known, AgentType, Knows, Places, WritePlaces, Tools
  <1>5. Missing \in Node /\ Readable(Missing) /\ ~HalfWritten(Missing)
        /\ \A p : Sound(p, Missing)
    BY DEF Missing, Node, HalfWritten, Sound, Readable
  <1>. QED  BY <1>1, <1>2, <1>3, <1>4, <1>5

\* A tool that returns, with what it may return.
LEMMA ReturnEnds ==
    ASSUME TypeInv, NEW a \in Agents, Working(a),
           NEW outcome \in {"ok", "failed", "truncated", "exited", "timed out"},
           NEW content \in Node, Sound(agent[a].path, content), Readable(content),
           ReturnWith(a, outcome, content), UNCHANGED <<profile, placed>>,
           At(a, "cleanup") => outcome = agent[a].outcome,
           agent[a].pc \in WritePlaces \ {"cleanup"} => outcome = "failed",
           \/ UNCHANGED jobs /\ (At(a, "wait") => ~Job(a).shell /\ Job(a).child # "attached")
           \/ At(a, "wait") /\ ShellKilled(a) /\ outcome # "exited"
    PROVE  \E x \in Known : agent' = [agent EXCEPT ![a] = x] /\ AgentKind(a, x)
  <1> DEFINE r == Result(a, outcome, content)
  <1>1. /\ r \in ResultType /\ r.call = CallOf(a) /\ r.tool = agent[a].tool
        /\ r.content = content /\ r.outcome = outcome /\ r.path = agent[a].path
    <2>1. CallOf(a) \in WsCall /\ agent[a].tool \in Tools
          /\ agent[a].path \in Names \cup {Root, Outside}
      BY CallNumbers DEF Working, At, AgentType
    <2>. QED  BY <2>1 DEF Result, ResultType
  <1> HIDE DEF r
  <1>2. Returns(a, r)
    BY <1>1 DEF Returns
  <1>3. agent' = [agent EXCEPT ![a] = Resting(agent[a].n)] /\ results' = results \cup {r}
    BY DEF ReturnWith, r
  <1>4. EndKind(a, Resting(agent[a].n))
    BY <1>1, <1>2, <1>3 DEF EndKind
  <1>. QED  BY <1>3, <1>4, CallNumbers DEF AgentKind

\* A tool that fails where nothing was started.
LEMMA FailEnds ==
    ASSUME TypeInv, NEW a \in Agents, Working(a), ~At(a, "wait"), ~At(a, "cleanup"), Fail(a)
    PROVE  \E x \in Known : agent' = [agent EXCEPT ![a] = x] /\ AgentKind(a, x)
  BY CallNumbers, ReturnEnds DEF Fail, Return

\* A call that begins was let through: under read_only it changes nothing.
LEMMA CallsBegin ==
    ASSUME TypeInv, NEW a \in Agents,
           CallWriteFile(a) \/ CallReader(a) \/ CallShell(a) \/ CallUser(a)
    PROVE  \E x \in Known : agent' = [agent EXCEPT ![a] = x] /\ AgentKind(a, x)
  <1>1. \A command : profile = "read_only" =>
          ~LetThrough("write_file", command) /\ ~LetThrough("shell", command)
    <2>1. Risk["write_file"] = "write" /\ Risk["shell"] = "shell"
      BY DEF Risk
    <2>2. ASSUME NEW command, profile = "read_only"
          PROVE  /\ Decide(profile, ConfirmRisky, "write_file", "write", command) = "block"
                 /\ Decide(profile, ConfirmRisky, "shell", "shell", command) = "block"
      <3>1. DecideChange(profile, ConfirmRisky) = "block"
        BY <2>2 DEF DecideChange, Confirms
      <3>2. Decide(profile, ConfirmRisky, "write_file", "write", command)
              = DecideChange(profile, ConfirmRisky)
        BY DEF Decide
      <3>3. Decide(profile, ConfirmRisky, "shell", "shell", command) = "block"
        BY <2>2 DEF Decide
      <3>. QED  BY <3>1, <3>2, <3>3
    <2>. QED  BY <2>1, <2>2 DEF LetThrough
  <1>2. ASSUME NEW tool \in Tools, NEW pc \in {"parent", "look", "enter", "launch", "question"},
               NEW path \in Names \cup {Root, Outside}, NEW create \in BOOLEAN, NEW big \in BOOLEAN,
               Begin(a, tool, pc, path, create, big),
               UNCHANGED <<profile, node, jobs, results, placed>>,
               pc = "parent" => tool = "write_file", pc = "look" => tool = "read_file",
               pc = "enter" => tool = "list_dir", pc = "launch" => tool = "shell",
               pc = "question" => tool = "ask_user",
               pc \in {"parent", "look", "enter"} => path \in Names \cup {Outside},
               profile = "read_only" => tool \notin {"write_file", "shell"}
        PROVE  \E x \in Known : agent' = [agent EXCEPT ![a] = x] /\ AgentKind(a, x)
    <2> DEFINE x == [pc |-> pc, n |-> agent[a].n + 1, tool |-> tool, path |-> path,
                     create |-> create, big |-> big, entries |-> {}, outcome |-> "none"]
    <2>1. agent[a].n + 1 \in 1..MaxCalls
      BY <1>2, CallNumbers, WorkspaceAssumption DEF Begin
    <2>2. x \in AgentType /\ x.pc = pc /\ x.n = agent[a].n + 1 /\ x.tool = tool /\ x.path = path
          /\ x.n >= 1
      BY <2>1 DEF AgentType, Places, WritePlaces, OtherPlaces
    <2>3. agent' = [agent EXCEPT ![a] = x] /\ At(a, "idle")
      BY <1>2 DEF Begin
    <2> HIDE DEF x
    <2>4. x \in Known
      BY <1>2, <2>2 DEF Known, Knows, WritePlaces
    <2>5. BeginKind(a, x)
      BY <1>2, <2>2, <2>3 DEF BeginKind
    <2>. QED  BY <2>3, <2>4, <2>5 DEF AgentKind
  <1>3. CASE CallWriteFile(a)
    <2>1. PICK path \in Nameable, create \in BOOLEAN, big \in BOOLEAN :
            Begin(a, "write_file", "parent", path, create, big)
      BY <1>3 DEF CallWriteFile
    <2>2. path \in Names \cup {Outside} /\ UNCHANGED <<profile, node, jobs, results, placed>>
      BY <1>3 DEF CallWriteFile, Nameable, Names
    <2>3. profile # "read_only"
      BY <1>1, <1>3 DEF CallWriteFile
    <2>. QED  BY <1>2, <2>1, <2>2, <2>3 DEF Tools
  <1>6. CASE CallReader(a)
    <2>1. PICK path \in Nameable :
            \/ Begin(a, "read_file", "look", path, FALSE, FALSE)
            \/ Begin(a, "list_dir", "enter", path, FALSE, FALSE)
      BY <1>6 DEF CallReader
    <2>2. path \in Names \cup {Outside} /\ UNCHANGED <<profile, node, jobs, results, placed>>
      BY <1>6 DEF CallReader, Nameable, Names, NoChange
    <2>3. CASE Begin(a, "read_file", "look", path, FALSE, FALSE)
      BY <1>2, <2>2, <2>3 DEF Tools
    <2>4. CASE Begin(a, "list_dir", "enter", path, FALSE, FALSE)
      BY <1>2, <2>2, <2>4 DEF Tools
    <2>. QED  BY <2>1, <2>3, <2>4
  <1>4. CASE CallShell(a)
    <2>1. /\ profile # "read_only" /\ Begin(a, "shell", "launch", Root, FALSE, FALSE)
          /\ UNCHANGED <<profile, node, jobs, results, placed>>
      BY <1>1, <1>4 DEF CallShell, NoChange
    <2>. QED  BY <1>2, <2>1 DEF Tools
  <1>5. CASE CallUser(a)
    <2>1. /\ Begin(a, "ask_user", "question", Root, FALSE, FALSE)
          /\ UNCHANGED <<profile, node, jobs, results, placed>>
      BY <1>5 DEF CallUser, NoChange
    <2>. QED  BY <1>2, <2>1 DEF Tools
  <1>. QED  BY <1>3, <1>4, <1>5, <1>6

\* A tool that goes on without a result, its path looked at.
LEMMA ToolGoesOn ==
    ASSUME TypeInv, NEW a \in Agents, Working(a),
           NEW pc \in {"mkdir", "target", "create", "fill", "replace", "read", "iterate", "dead"},
           Go(a, pc), UNCHANGED <<profile, jobs, results, placed>>,
           pc # "dead" => agent[a].pc \notin {"wait", "cleanup"},
           pc \in WritePlaces => agent[a].tool = "write_file",
           pc = "read" => agent[a].tool = "read_file",
           pc = "iterate" => agent[a].tool = "list_dir",
           pc # "dead" => agent[a].path \in Names
    PROVE  \E x \in Known : agent' = [agent EXCEPT ![a] = x] /\ AgentKind(a, x)
  <1>1. PICK x \in AgentType :
          /\ x.pc = pc /\ Same(a, x) /\ x.outcome = agent[a].outcome
          /\ [agent EXCEPT ![a].pc = pc] = [agent EXCEPT ![a] = x]
    BY GoesOn DEF Places, WritePlaces, OtherPlaces
  <1>2. agent' = [agent EXCEPT ![a] = x]
    BY <1>1 DEF Go
  <1>3. x \in Known
    BY <1>1, CallNumbers DEF Known, Knows, Same, Working, WritePlaces
  <1>4. OnKind(a, x)
    BY <1>1 DEF OnKind, At
  <1>. QED  BY <1>2, <1>3, <1>4 DEF AgentKind

\* write_file goes to its finally after an error or an interrupt.
LEMMA WriteSettles ==
    ASSUME TypeInv, NEW a \in Agents, NEW outcome \in {"failed", "interrupted"},
           agent[a].pc \in WritePlaces \ {"parent"}, agent[a].pc = "cleanup" => outcome # "failed",
           Settle(a, outcome), UNCHANGED <<profile, jobs, results, placed>>
    PROVE  \E x \in Known : agent' = [agent EXCEPT ![a] = x] /\ AgentKind(a, x)
  <1>1. PICK x \in AgentType :
          /\ x.pc = "cleanup" /\ Same(a, x) /\ x.outcome = outcome
          /\ [agent EXCEPT ![a].pc = "cleanup", ![a].outcome = outcome] = [agent EXCEPT ![a] = x]
    <2>1. outcome \in {"ok", "failed", "interrupted"}
      OBVIOUS
    <2>. QED  BY <2>1, Settles, Zenon
  <1>2. agent' = [agent EXCEPT ![a] = x]
    BY <1>1 DEF Settle
  <1>3. x \in Known /\ Working(a) /\ agent[a].pc # "wait"
    BY <1>1, CallNumbers DEF Known, Knows, Same, Working, WritePlaces
  <1>4. OnKind(a, x)
    BY <1>1, <1>3 DEF OnKind, At
  <1>. QED  BY <1>2, <1>3, <1>4 DEF AgentKind

\* What the places of an agent say, in the words of its actions.
LEMMA PlaceFacts ==
    ASSUME TypeInv, NEW a \in Agents
    PROVE  /\ agent[a].pc \in WritePlaces => agent[a].tool = "write_file"
           /\ agent[a].pc \in {"look", "read"} => agent[a].tool = "read_file"
           /\ agent[a].pc \in {"enter", "iterate", "classify"} => agent[a].tool = "list_dir"
           /\ agent[a].pc \in {"mkdir", "target", "create", "fill", "replace", "cleanup",
                               "read", "iterate", "classify"} => agent[a].path \in Names
           /\ agent[a].pc \in {"parent", "look", "enter"} /\ agent[a].path # Outside =>
                agent[a].path \in Names
           /\ agent[a].pc \in Places
  BY CallNumbers DEF Knows, WritePlaces, AgentType

\* write_file.
LEMMA WriteKinds ==
    ASSUME TypeInv, NEW a \in Agents,
           \/ RefusePath(a) \/ CheckParent(a) \/ MakeParent(a) \/ CheckTarget(a) \/ CreateTemp(a)
           \/ FillTemp(a) \/ ReplaceTarget(a) \/ CleanUp(a) \/ SystemFails(a)
    PROVE  \E x \in Known : agent' = [agent EXCEPT ![a] = x] /\ AgentKind(a, x)
  <1>1. CASE RefusePath(a)
    BY <1>1, FailEnds DEF RefusePath, Working, At
  <1>2. CASE CheckParent(a)
    <2>1. At(a, "parent") /\ agent[a].path # Outside
      BY <1>2 DEF CheckParent, OnPath
    <2>2. \/ \E pc \in {"target", "mkdir"} : Go(a, pc) /\ NoChange
          \/ Fail(a)
      BY <1>2 DEF CheckParent
    <2>. QED  BY <2>1, <2>2, ToolGoesOn, FailEnds, PlaceFacts DEF NoChange, At, Working, WritePlaces
  <1>3. CASE MakeParent(a)
    <2>1. At(a, "mkdir")
      BY <1>3 DEF MakeParent
    <2>2. \/ Go(a, "target") /\ UNCHANGED <<profile, jobs, results, placed>>
          \/ Fail(a)
      BY <1>3 DEF MakeParent
    <2>. QED  BY <2>1, <2>2, ToolGoesOn, FailEnds, PlaceFacts DEF At, Working, WritePlaces
  <1>4. CASE CheckTarget(a)
    <2>1. At(a, "target")
      BY <1>4 DEF CheckTarget
    <2>2. \/ Go(a, "create") /\ NoChange
          \/ Fail(a)
      BY <1>4 DEF CheckTarget
    <2>. QED  BY <2>1, <2>2, ToolGoesOn, FailEnds, PlaceFacts DEF NoChange, At, Working, WritePlaces
  <1>5. CASE CreateTemp(a)
    <2>1. At(a, "create") /\ UNCHANGED <<profile, jobs, results, placed>>
      BY <1>5 DEF CreateTemp
    <2>2. Go(a, "fill") \/ Settle(a, "failed")
      BY <1>5 DEF CreateTemp
    <2>3. CASE Go(a, "fill")
      BY <2>1, <2>3, ToolGoesOn, PlaceFacts DEF At, Working, WritePlaces
    <2>4. CASE Settle(a, "failed")
      BY <2>1, <2>4, WriteSettles DEF At, WritePlaces
    <2>. QED  BY <2>2, <2>3, <2>4
  <1>6. CASE FillTemp(a)
    <2>1. At(a, "fill") /\ UNCHANGED <<profile, jobs, results, placed>>
      BY <1>6 DEF FillTemp
    <2>2. Go(a, "replace") \/ Settle(a, "failed")
      BY <1>6 DEF FillTemp
    <2>3. CASE Go(a, "replace")
      BY <2>1, <2>3, ToolGoesOn, PlaceFacts DEF At, Working, WritePlaces
    <2>4. CASE Settle(a, "failed")
      BY <2>1, <2>4, WriteSettles DEF At, WritePlaces
    <2>. QED  BY <2>2, <2>3, <2>4
  <1>7. CASE ReplaceTarget(a)
    <2>1. At(a, "replace") /\ UNCHANGED <<profile, jobs, results>>
      BY <1>7 DEF ReplaceTarget
    <2>2. CASE placed' = placed \cup {CallOf(a)} /\ Settle(a, "ok")
      <3>1. PICK x \in AgentType :
              /\ x.pc = "cleanup" /\ Same(a, x) /\ x.outcome = "ok"
              /\ [agent EXCEPT ![a].pc = "cleanup", ![a].outcome = "ok"] = [agent EXCEPT ![a] = x]
        BY Settles, Zenon
      <3>2. x \in Known
        BY <2>1, <3>1, CallNumbers DEF Known, Knows, Same, At, WritePlaces
      <3>3. PlaceKind(a, x)
        BY <2>1, <2>2, <3>1 DEF PlaceKind
      <3>. QED  BY <2>2, <3>1, <3>2, <3>3 DEF AgentKind, Settle
    <2>3. CASE Settle(a, "failed") /\ UNCHANGED placed
      BY <2>1, <2>3, WriteSettles DEF At, WritePlaces
    <2>. QED  BY <1>7, <2>2, <2>3 DEF ReplaceTarget
  <1>8. CASE CleanUp(a)
    <2>1. At(a, "cleanup") /\ UNCHANGED <<profile, jobs, placed>>
      BY <1>8 DEF CleanUp
    <2>2. CASE agent[a].outcome = "interrupted"
      <3>1. Go(a, "dead") /\ UNCHANGED results
        BY <1>8, <2>2 DEF CleanUp
      <3>. QED  BY <2>1, <3>1, ToolGoesOn DEF At, Working, WritePlaces
    <2>3. CASE agent[a].outcome # "interrupted"
      <3>1. Return(a, agent[a].outcome)
        BY <1>8, <2>3 DEF CleanUp
      <3>2. agent[a].outcome \in {"ok", "failed"}
        BY <2>1, <2>3, CallNumbers DEF Knows, At, AgentType
      <3>. QED  BY <2>1, <3>1, <3>2, CallNumbers, ReturnEnds DEF Return, At, Working
    <2>. QED  BY <2>2, <2>3
  <1>9. CASE SystemFails(a)
    <2>1. CASE Fail(a) /\ agent[a].pc \in {"parent", "mkdir", "target", "look", "enter", "iterate",
                                           "classify"}
      BY <2>1, FailEnds DEF Working, At
    <2>2. CASE Settle(a, "failed") /\ NoChange /\ agent[a].pc \in {"create", "replace"}
      BY <2>2, WriteSettles DEF NoChange, WritePlaces
    <2>. QED  BY <1>9, <2>1, <2>2 DEF SystemFails
  <1>. QED
    BY <1>1, <1>2, <1>3, <1>4, <1>5, <1>6, <1>7, <1>8, <1>9

\* read_file and list_dir.
LEMMA ReadKinds ==
    ASSUME TypeInv, TreeInv, NEW a \in Agents,
           \/ LookAtFile(a) \/ ReadContent(a)
           \/ EnterDir(a) \/ IterateDir(a) \/ ClassifyEntries(a)
    PROVE  \E x \in Known : agent' = [agent EXCEPT ![a] = x] /\ AgentKind(a, x)
  <1>1. CASE LookAtFile(a)
    <2>1. At(a, "look") /\ agent[a].path # Outside
      BY <1>1 DEF LookAtFile, OnPath
    <2>2. \/ Go(a, "read") /\ NoChange
          \/ Fail(a)
      BY <1>1 DEF LookAtFile
    <2>. QED  BY <2>1, <2>2, ToolGoesOn, FailEnds, PlaceFacts DEF NoChange, At, Working, WritePlaces
  <1>2. CASE ReadContent(a)
    <2>1. At(a, "read") /\ agent[a].path \in Names
      BY <1>2, PlaceFacts DEF ReadContent, At
    <2>2. CASE Fail(a)
      BY <2>1, <2>2, FailEnds DEF At, Working
    <2>3. CASE /\ ~node[agent[a].path].big /\ ReturnWith(a, "ok", node[agent[a].path])
               /\ UNCHANGED <<profile, node, jobs, placed, bounds>>
      <3>1. /\ node[agent[a].path] \in Node /\ Sound(agent[a].path, node[agent[a].path])
            /\ Readable(node[agent[a].path])
        BY <2>1, <2>3 DEF TypeInv, TreeInv, Readable
      <3>. QED  BY <2>1, <2>3, <3>1, ReturnEnds DEF At, Working, WritePlaces
    <2>. QED  BY <1>2, <2>2, <2>3 DEF ReadContent
  <1>3. CASE EnterDir(a)
    <2>1. At(a, "enter") /\ agent[a].path # Outside
      BY <1>3 DEF EnterDir, OnPath
    <2>2. \/ Go(a, "iterate") /\ NoChange
          \/ Fail(a)
      BY <1>3 DEF EnterDir
    <2>. QED  BY <2>1, <2>2, ToolGoesOn, FailEnds, PlaceFacts DEF NoChange, At, Working, WritePlaces
  <1>4. CASE IterateDir(a)
    <2>1. At(a, "iterate")
      BY <1>4 DEF IterateDir
    <2>2. CASE Fail(a)
      BY <2>1, <2>2, FailEnds DEF At, Working
    <2>3. CASE NoChange /\ agent' = [agent EXCEPT ![a].pc = "classify",
                                                   ![a].entries = Children(agent[a].path)]
      <3> DEFINE e == Children(agent[a].path)
                 x == [agent[a] EXCEPT !.pc = "classify", !.entries = e]
      <3>1. e \in SUBSET Names
        BY DEF Children
      <3> HIDE DEF e
      <3>2. agent[a] \in AgentType /\ agent \in [Agents -> Known] /\ agent[a].n >= 1
        BY <2>1, CallNumbers DEF TypeInv, At, Knows
      <3>3. x \in AgentType /\ x.pc = "classify" /\ Same(a, x) /\ x.n >= 1
        BY <3>1, <3>2 DEF AgentType, Same, Places, OtherPlaces
      <3>4. agent' = [agent EXCEPT ![a] = x]
        BY <2>3, <3>2 DEF e
      <3> HIDE DEF x
      <3>5. x \in Known
        BY <2>1, <3>3, PlaceFacts DEF Known, Knows, Same, At, WritePlaces
      <3>6. OnKind(a, x)
        BY <2>1, <2>3, <3>3 DEF OnKind, At, Working, NoChange
      <3>. QED  BY <3>4, <3>5, <3>6 DEF AgentKind
    <2>. QED  BY <1>4, <2>2, <2>3 DEF IterateDir
  <1>5. CASE ClassifyEntries(a)
    <2>1. At(a, "classify") /\ UNCHANGED <<profile, jobs, placed>>
      BY <1>5 DEF ClassifyEntries
    <2>2. \/ ReturnWith(a, "truncated", Missing)
          \/ ReturnWith(a, "ok", Missing)
      BY <1>5 DEF ClassifyEntries, Return
    <2>. QED  BY <2>1, <2>2, CallNumbers, ReturnEnds DEF At, Working, WritePlaces
  <1>. QED  BY <1>1, <1>2, <1>3, <1>4, <1>5

\* shell, ask_user and the ends of an agent.
LEMMA OtherKinds ==
    ASSUME TypeInv, NEW a \in Agents,
           ShellStep(a) \/ UserAnswers(a) \/ Interrupt(a) \/ Kill(a)
    PROVE  \E x \in Known : agent' = [agent EXCEPT ![a] = x] /\ AgentKind(a, x)
  <1>1. CASE LaunchFails(a)
    BY <1>1, FailEnds DEF LaunchFails, Working, At
  <1>2. CASE Launch(a)
    <2>1. /\ At(a, "launch") /\ UNCHANGED <<profile, results, placed>> /\ Go(a, "wait")
          /\ WithJob(CallOf(a), [shell |-> TRUE, child |-> "none"])
      BY <1>2 DEF Launch
    <2>2. PICK x \in AgentType :
            /\ x.pc = "wait" /\ Same(a, x) /\ x.outcome = agent[a].outcome
            /\ [agent EXCEPT ![a].pc = "wait"] = [agent EXCEPT ![a] = x]
      BY GoesOn DEF Places, OtherPlaces
    <2>3. x \in Known
      BY <2>1, <2>2, CallNumbers DEF Known, Knows, Same, At, WritePlaces
    <2>4. LaunchKind(a, x)
      BY <2>1, <2>2 DEF LaunchKind
    <2>. QED  BY <2>1, <2>2, <2>3, <2>4 DEF AgentKind, Go
  <1>3. CASE CommandEnds(a)
    <2>1. /\ At(a, "wait") /\ UNCHANGED <<profile, jobs, placed>>
          /\ ~Job(a).shell /\ Job(a).child # "attached" /\ ReturnWith(a, "exited", Missing)
      BY <1>3 DEF CommandEnds, Return
    <2>. QED  BY <2>1, CallNumbers, ReturnEnds DEF At, Working, WritePlaces
  <1>4. CASE CommandTimesOut(a)
    <2>1. /\ At(a, "wait") /\ UNCHANGED <<profile, placed>>
          /\ ShellKilled(a) /\ ReturnWith(a, "timed out", Missing)
      BY <1>4 DEF CommandTimesOut, Return, ShellKilled
    <2>. QED  BY <2>1, CallNumbers, ReturnEnds DEF At, Working, WritePlaces
  <1>5. CASE UserAnswers(a)
    <2>1. At(a, "question") /\ UNCHANGED <<profile, jobs, placed>>
      BY <1>5 DEF UserAnswers
    <2>2. PICK outcome \in {"ok", "failed"} : ReturnWith(a, outcome, Missing)
      BY <1>5 DEF UserAnswers, Return
    <2>. QED  BY <2>1, <2>2, CallNumbers, ReturnEnds DEF At, Working, WritePlaces
  <1>6. CASE Interrupt(a)
    <2>1. Working(a) /\ UNCHANGED <<profile, results, placed>>
      BY <1>6 DEF Interrupt
    <2>2. CASE Settle(a, "interrupted") /\ agent[a].pc \in {"fill", "replace", "cleanup"}
      <3>1. UNCHANGED jobs
        BY <1>6, <2>2 DEF Interrupt, At
      <3>. QED  BY <2>1, <2>2, <3>1, WriteSettles DEF WritePlaces
    <2>3. CASE At(a, "wait")
      <3>1. Go(a, "dead") /\ ShellKilled(a)
        BY <1>6, <2>3 DEF Interrupt, At, ShellKilled
      <3>2. PICK x \in AgentType :
              /\ x.pc = "dead" /\ Same(a, x) /\ x.outcome = agent[a].outcome
              /\ [agent EXCEPT ![a].pc = "dead"] = [agent EXCEPT ![a] = x]
        BY GoesOn DEF Places
      <3>3. x \in Known
        BY <2>3, <3>2, CallNumbers DEF Known, Knows, Same, At, WritePlaces
      <3>4. StopKind(a, x)
        BY <2>1, <2>3, <3>1, <3>2 DEF StopKind
      <3>. QED  BY <3>1, <3>2, <3>3, <3>4 DEF AgentKind, Go
    <2>4. CASE Go(a, "dead") /\ ~At(a, "wait")
      <3>1. UNCHANGED jobs
        BY <1>6, <2>4 DEF Interrupt
      <3>. QED  BY <2>1, <2>4, <3>1, ToolGoesOn DEF WritePlaces
    <2>. QED  BY <1>6, <2>2, <2>3, <2>4 DEF Interrupt
  <1>7. CASE Kill(a)
    <2>1. Working(a) /\ UNCHANGED <<profile, jobs, results, placed>> /\ Go(a, "dead")
      BY <1>7 DEF Kill
    <2>. QED  BY <2>1, ToolGoesOn DEF WritePlaces
  <1>. QED  BY <1>1, <1>2, <1>3, <1>4, <1>5, <1>6, <1>7 DEF ShellStep

\* What a shell or its children do to the jobs.
JobKind ==
    /\ UNCHANGED <<profile, agent, results, placed>>
    /\ \/ UNCHANGED jobs
       \/ \E call \in DOMAIN jobs, job \in JobType :
            /\ WithJob(call, job)
            /\ ~jobs[call].shell => ~job.shell /\ (job.child = "attached" =>
                                                    jobs[call].child = "attached")

\* The steps of a job are of this kind.
LEMMA JobKinds ==
    ASSUME TypeInv, JobStep
    PROVE  JobKind
  <1>1. PICK call \in DOMAIN jobs :
          StartChild(call) \/ ShellExits(call) \/ ChildExits(call) \/ Effect(call)
    BY DEF JobStep
  <1>2. jobs[call] \in JobType
    BY DEF TypeInv
  <1>3. CASE StartChild(call)
    <2>1. PICK child \in {"attached", "detached"} :
            WithJob(call, [jobs[call] EXCEPT !.child = child])
      BY <1>3 DEF StartChild
    <2>2. [jobs[call] EXCEPT !.child = child] \in JobType
      BY <1>2 DEF JobType
    <2>. QED  BY <1>3, <2>1, <2>2 DEF StartChild, JobKind
  <1>4. CASE ShellExits(call)
    <2> DEFINE job == [jobs[call] EXCEPT !.shell = FALSE]
    <2>1. job \in JobType /\ ~job.shell /\ job.child = jobs[call].child
      BY <1>2 DEF JobType
    <2>. QED  BY <1>4, <2>1 DEF ShellExits, JobKind
  <1>5. CASE ChildExits(call)
    <2> DEFINE job == [jobs[call] EXCEPT !.child = "gone"]
    <2>1. job \in JobType /\ job.shell = jobs[call].shell /\ job.child = "gone"
      BY <1>2 DEF JobType
    <2>. QED  BY <1>5, <2>1 DEF ChildExits, JobKind
  <1>6. CASE Effect(call)
    BY <1>6 DEF Effect, JobKind
  <1>. QED  BY <1>1, <1>3, <1>4, <1>5, <1>6

StillKind == UNCHANGED <<profile, agent, jobs, results, placed>>

\* Every step is of one of these kinds.
LEMMA StepKinds ==
    ASSUME TypeInv, TreeInv, [WsNext]_wsVars
    PROVE  \/ \E a \in Agents : \E x \in Known :
                agent' = [agent EXCEPT ![a] = x] /\ AgentKind(a, x)
           \/ JobKind
           \/ StillKind
  <1>1. ASSUME NEW a \in Agents, AgentStep(a)
        PROVE  \E x \in Known : agent' = [agent EXCEPT ![a] = x] /\ AgentKind(a, x)
    BY <1>1, CallsBegin, WriteKinds, ReadKinds, OtherKinds DEF AgentStep, FileStep
  <1>2. AllStill \/ UNCHANGED wsVars => StillKind
    BY DEF AllStill, wsVars, StillKind
  <1>. QED  BY <1>1, <1>2, JobKinds DEF WsNext

(***************************************************************************)
(* What steps do to the tree.                                              *)
(***************************************************************************)
\* A directory is made where there is no file.
MkdirKind == ~IsFile(Dir) /\ node' = [node EXCEPT ![Dir] = Directory]

\* Nothing, or a temporary file is removed.
DropKind(gone) == node' = [p \in Names |-> IF p \in gone THEN Missing ELSE node[p]]

\* A file may be put at path; half a file only by an agent that creates its
\* temporary file.
MayPut(path, content) ==
    /\ path = Dir => ~IsDir(path)
    /\ IsDir(ParentOf(path))
    /\ content.kind = "file" /\ Sound(path, content)
    /\ HalfWritten(content) => \E a \in Agents : At(a, "create") /\ path = Temp(a)

\* It is put there, by replacing what is there or by writing into it.
PutKind(path, content, gone) ==
    /\ MayPut(path, content)
    /\ node' = [p \in Names |-> IF p \in gone THEN Missing ELSE IF p = path THEN content
                                ELSE node[p]]

RemoveKind(path) ==
    node' = [p \in Names |-> IF p = path \/ ParentOf(p) = path THEN Missing ELSE node[p]]

TreeKind ==
    \/ MkdirKind
    \/ \E gone \in SUBSET TempNames : DropKind(gone)
    \/ \E path \in Names, content \in Node, gone \in SUBSET TempNames :
         PutKind(path, content, gone)
    \/ \E path \in Names : RemoveKind(path)

\* Dir and the root are the only directories that may hold anything.
LEMMA Parents ==
    ASSUME NEW p \in Names
    PROVE  /\ ParentOf(p) \in {Root, Dir}
           /\ Root \notin Names /\ Dir \in Names /\ Dir \notin TempNames /\ ParentOf(Dir) = Root
           /\ p # Root /\ Dir # Root /\ IsDir(Root) /\ Exists(Root)
           /\ IsDir(p) <=> node[p].kind = "dir"
           /\ Exists(p) <=> node[p].kind # "missing"
           /\ IsDir(p)' <=> node'[p].kind = "dir"
           /\ Exists(p)' <=> node'[p].kind # "missing"
           /\ TempNames \subseteq Names
  <1>1. Root \notin Names /\ Dir \in Names /\ Dir \notin TempNames /\ Dir \notin Inner
    BY WorkspaceAssumption DEF Paths, Names
  <1>2. p \in TempNames => p.dir \in {Root, Dir}
    BY DEF TempNames
  <1>. QED  BY <1>1, <1>2 DEF ParentOf, IsDir, Exists, Names

\* A temporary file belongs to a call and is beside the file it replaces.
LEMMA TempTyped ==
    ASSUME TypeInv, NEW a \in Agents, ~At(a, "idle")
    PROVE  /\ Temp(a) \in TempNames /\ Temp(a) \in Names
           /\ Temp(a).dir = ParentOf(agent[a].path) /\ Temp(a).call = CallOf(a)
           /\ ParentOf(Temp(a)) = ParentOf(agent[a].path)
  <1>1. CallOf(a) \in WsCall /\ agent[a].path \in Names \cup {Root, Outside}
    BY CallNumbers DEF AgentType
  <1>2. ParentOf(agent[a].path) \in {Root, Dir}
    <2>1. CASE agent[a].path \in Names
      BY <2>1, Parents
    <2>2. CASE agent[a].path \notin Names
      BY <2>2 DEF ParentOf, Names, Paths
    <2>. QED  BY <2>1, <2>2
  <1>3. Temp(a) \in TempNames
    BY <1>1, <1>2 DEF Temp, TempNames
  <1>. QED  BY <1>3 DEF Temp, ParentOf, Names

\* What is half of a call under the name of its temporary file.
LEMMA HalfIs ==
    ASSUME TypeInv, TreeInv, NEW a \in Agents, ~At(a, "idle")
    PROVE  /\ Half(a) \in Node /\ Sound(Temp(a), Half(a)) /\ Half(a).kind = "file"
           /\ HalfWritten(node[Temp(a)]) => node[Temp(a)] = Half(a)
           /\ [Half(a) EXCEPT !.whole = TRUE] \in Node
           /\ [Half(a) EXCEPT !.whole = TRUE].kind = "file"
           /\ \A p : Sound(p, [Half(a) EXCEPT !.whole = TRUE])
           /\ ~HalfWritten([Half(a) EXCEPT !.whole = TRUE])
  <1>1. CallOf(a) \in WsCall /\ Temp(a) \in TempNames /\ Temp(a) \in Names
        /\ Temp(a).call = CallOf(a)
    BY CallNumbers, TempTyped
  <1>2. Half(a) \in Node /\ Half(a).kind = "file" /\ ~Half(a).big /\ Half(a).by = CallOf(a)
    BY <1>1 DEF Half, Content, Node
  <1>3. Sound(Temp(a), Half(a))
    BY <1>1, <1>2 DEF Sound
  <1>4. ASSUME HalfWritten(node[Temp(a)]) PROVE node[Temp(a)] = Half(a)
    <2> DEFINE c == node[Temp(a)]
    <2>1. c \in Node /\ Sound(Temp(a), c)
      BY <1>1 DEF TypeInv, TreeInv
    <2> HIDE DEF c
    <2>2. c.kind = "file" /\ c.by # Shell /\ ~c.whole /\ c.by = CallOf(a) /\ ~c.big
      BY <1>1, <1>4, <2>1 DEF HalfWritten, Sound, c
    <2>3. c \in [kind : {"file"}, by : WsCall \cup {Shell}, whole : BOOLEAN, big : BOOLEAN]
      BY <2>1, <2>2 DEF Node, Missing, Directory
    <2>4. c = Half(a)
      BY <2>2, <2>3 DEF Half, Content
    <2>. QED  BY <2>4 DEF c
  <1>5. ASSUME NEW h, h = Half(a)
        PROVE  /\ [h EXCEPT !.whole = TRUE] \in Node
               /\ [h EXCEPT !.whole = TRUE].kind = "file"
               /\ [h EXCEPT !.whole = TRUE].whole /\ ~[h EXCEPT !.whole = TRUE].big
    <2>1. /\ h \in [kind : {"file"}, by : WsCall \cup {Shell}, whole : BOOLEAN, big : BOOLEAN]
          /\ ~h.big
      BY <1>1, <1>5 DEF Half, Content
    <2>. QED  BY <2>1 DEF Node
  <1>6. /\ [Half(a) EXCEPT !.whole = TRUE] \in Node
        /\ [Half(a) EXCEPT !.whole = TRUE].kind = "file"
        /\ [Half(a) EXCEPT !.whole = TRUE].whole /\ ~[Half(a) EXCEPT !.whole = TRUE].big
    BY <1>5
  <1>7. /\ ~HalfWritten([Half(a) EXCEPT !.whole = TRUE])
        /\ \A p : Sound(p, [Half(a) EXCEPT !.whole = TRUE])
    BY <1>6 DEF HalfWritten, Sound
  <1>. QED  BY <1>2, <1>3, <1>4, <1>6, <1>7

\* One entry that changes, or none.
LEMMA OneEntry ==
    ASSUME TypeInv
    PROVE  /\ UNCHANGED node => TreeKind
           /\ \A p \in TempNames : node' = [node EXCEPT ![p] = Missing] => TreeKind
           /\ \A p \in Names, c \in Node :
                MayPut(p, c) /\ node' = [node EXCEPT ![p] = c] => TreeKind
  <1>1. node = [p \in Names |-> node[p]] /\ DOMAIN node = Names
    BY DEF TypeInv
  <1>2. {} \in SUBSET TempNames
    OBVIOUS
  <1>3. ASSUME UNCHANGED node PROVE TreeKind
    <2>1. DropKind({})
      BY <1>1, <1>3 DEF DropKind
    <2>. QED  BY <1>2, <2>1 DEF TreeKind
  <1>4. ASSUME NEW p \in TempNames, node' = [node EXCEPT ![p] = Missing] PROVE TreeKind
    <2>1. DropKind({p})
      BY <1>1, <1>4 DEF DropKind
    <2>. QED  BY <2>1 DEF TreeKind
  <1>5. ASSUME NEW p \in Names, NEW c \in Node, MayPut(p, c), node' = [node EXCEPT ![p] = c]
        PROVE  TreeKind
    <2>1. PutKind(p, c, {})
      BY <1>1, <1>5 DEF PutKind
    <2>. QED  BY <1>2, <2>1 DEF TreeKind
  <1>. QED  BY <1>3, <1>4, <1>5

\* What a step does to the tree is one of these.
LEMMA TreeKinds ==
    ASSUME TypeInv, TreeInv, ReadyInv, [WsNext]_wsVars
    PROVE  TreeKind
  <1>1. ASSUME NEW a \in Agents, AgentStep(a) PROVE TreeKind
    <2>1. CASE MakeParent(a)
      <3>1. agent[a].path \in Names /\ ParentOf(agent[a].path) \in {Root, Dir}
        BY <2>1, PlaceFacts, Parents DEF MakeParent, At
      <3>2. UNCHANGED node \/ MkdirKind
        BY <2>1, <3>1 DEF MakeParent, Fail, MkdirKind
      <3>3. MkdirKind => TreeKind
        BY DEF TreeKind
      <3>. QED  BY <3>3, <3>2, OneEntry
    <2>2. CASE CreateTemp(a)
      <3>1. At(a, "create")
        BY <2>2 DEF CreateTemp
      <3>2. CASE UNCHANGED node
        BY <3>2, OneEntry
      <3>3. CASE IsDir(ParentOf(agent[a].path)) /\ node' = [node EXCEPT ![Temp(a)] = Half(a)]
        <4>1. /\ Temp(a) \in TempNames /\ Temp(a) \in Names /\ Temp(a) # Dir
              /\ IsDir(ParentOf(Temp(a)))
          BY <3>1, <3>3, TempTyped, Parents DEF At
        <4>2. Half(a) \in Node /\ Half(a).kind = "file" /\ Sound(Temp(a), Half(a))
          BY <3>1, HalfIs DEF At
        <4>3. MayPut(Temp(a), Half(a))
          BY <3>1, <4>1, <4>2 DEF MayPut
        <4>. QED  BY <3>3, <4>1, <4>2, <4>3, OneEntry
      <3>. QED  BY <2>2, <3>2, <3>3 DEF CreateTemp
    <2>3. CASE FillTemp(a)
      <3>1. At(a, "fill")
        BY <2>3 DEF FillTemp
      <3>2. CASE UNCHANGED node
        BY <3>2, OneEntry
      <3>3. CASE node[Temp(a)] = Half(a) /\ node' = [node EXCEPT ![Temp(a)].whole = TRUE]
        <4> DEFINE c == [Half(a) EXCEPT !.whole = TRUE]
        <4>1. Temp(a) \in TempNames /\ Temp(a) \in Names /\ Temp(a) # Dir
          BY <3>1, TempTyped, Parents DEF At
        <4>2. c \in Node /\ c.kind = "file" /\ Sound(Temp(a), c) /\ ~HalfWritten(c)
              /\ Half(a).kind = "file"
          BY <3>1, HalfIs DEF At
        <4>3. IsDir(ParentOf(Temp(a)))
          BY <3>3, <4>1, <4>2, Parents DEF TreeInv
        <4>4. node' = [node EXCEPT ![Temp(a)] = c]
          BY <3>3
        <4> HIDE DEF c
        <4>5. MayPut(Temp(a), c)
          BY <4>1, <4>2, <4>3 DEF MayPut
        <4>. QED  BY <4>1, <4>2, <4>4, <4>5, OneEntry
      <3>. QED  BY <2>3, <3>2, <3>3 DEF FillTemp
    <2>4. CASE ReplaceTarget(a)
      <3>1. At(a, "replace")
        BY <2>4 DEF ReplaceTarget
      <3>2. CASE UNCHANGED node
        BY <3>2, OneEntry
      <3>3. CASE /\ MayReplace(a)
                 /\ node' = [node EXCEPT ![agent[a].path] = node[Temp(a)], ![Temp(a)] = Missing]
        <4> DEFINE c == node[Temp(a)]
        <4>1. /\ agent[a].path \in Names /\ Temp(a) \in TempNames /\ Temp(a) \in Names
              /\ ParentOf(Temp(a)) = ParentOf(agent[a].path)
          BY <3>1, PlaceFacts, TempTyped DEF At
        <4>2. Exists(Temp(a)) /\ ~IsDir(Temp(a)) /\ ~IsDir(agent[a].path)
          BY <3>3 DEF MayReplace, IsFile
        <4>3. IsDir(ParentOf(agent[a].path))
          BY <4>1, <4>2 DEF TreeInv
        <4>4. c \in Node /\ Sound(Temp(a), c) /\ ~HalfWritten(c)
          BY <3>1, <4>1 DEF TypeInv, TreeInv, ReadyInv
        <4>5. c.kind # "missing" /\ c.kind # "dir"
          BY <4>1, <4>2, Parents
        <4>6. node' = [p \in Names |-> IF p \in {Temp(a)} THEN Missing
                                       ELSE IF p = agent[a].path THEN c ELSE node[p]]
          <5>1. node = [p \in Names |-> node[p]] /\ DOMAIN node = Names
            BY DEF TypeInv
          <5>. QED  BY <3>3, <4>1, <5>1
        <4> HIDE DEF c
        <4>7. c.kind = "file"
          BY <4>4, <4>5 DEF Node, Missing, Directory
        <4>8. Sound(agent[a].path, c)
          BY <4>4 DEF Sound
        <4>9. PutKind(agent[a].path, c, {Temp(a)})
          BY <4>1, <4>2, <4>3, <4>4, <4>6, <4>7, <4>8 DEF PutKind, MayPut
        <4>10. {Temp(a)} \in SUBSET TempNames
          BY <4>1
        <4>. QED  BY <4>1, <4>4, <4>9, <4>10 DEF TreeKind
      <3>. QED  BY <2>4, <3>2, <3>3 DEF ReplaceTarget
    <2>5. CASE CleanUp(a)
      <3>1. Temp(a) \in TempNames
        BY <2>5, TempTyped DEF CleanUp, At
      <3>. QED  BY <2>5, <3>1, OneEntry DEF CleanUp, Unlinked
    <2>6. CASE ~(MakeParent(a) \/ CreateTemp(a) \/ FillTemp(a) \/ ReplaceTarget(a) \/ CleanUp(a))
      <3>1. UNCHANGED node
        BY <1>1, <2>6 DEF AgentStep, CallWriteFile, CallReader, CallShell, CallUser, FileStep,
           ShellStep, NoChange, Fail, RefusePath, CheckParent, CheckTarget, LookAtFile,
           ReadContent, EnterDir, IterateDir, ClassifyEntries, SystemFails, LaunchFails, Launch,
           CommandEnds, CommandTimesOut, UserAnswers, Interrupt, Kill
      <3>. QED  BY <3>1, OneEntry
    <2>. QED  BY <2>1, <2>2, <2>3, <2>4, <2>5, <2>6
  <1>2. ASSUME NEW call \in DOMAIN jobs, Effect(call) PROVE TreeKind
    <2>1. PICK path \in Names :
         \/ RemoveKind(path)
         \/ /\ ~Exists(path) /\ path = Dir
            /\ node' = [node EXCEPT ![path] = Directory]
         \/ /\ IsFile(path) \/ (path \in Paths /\ ~Exists(path) /\ IsDir(ParentOf(path)))
            /\ \E whole, big \in BOOLEAN :
                 node' = [node EXCEPT ![path] = Content(Shell, whole, big)]
      BY <1>2 DEF Effect, RemoveKind
    <2>2. CASE RemoveKind(path)
      BY <2>2 DEF TreeKind
    <2>3. CASE /\ ~Exists(path) /\ path = Dir
               /\ node' = [node EXCEPT ![path] = Directory]
      BY <2>3 DEF TreeKind, MkdirKind, IsFile
    <2>4. CASE /\ IsFile(path) \/ (path \in Paths /\ ~Exists(path) /\ IsDir(ParentOf(path)))
               /\ \E whole, big \in BOOLEAN :
                    node' = [node EXCEPT ![path] = Content(Shell, whole, big)]
      <3>1. PICK whole \in BOOLEAN, big \in BOOLEAN :
                    node' = [node EXCEPT ![path] = Content(Shell, whole, big)]
        BY <2>4
      <3> DEFINE c == Content(Shell, whole, big)
      <3>2. c \in Node /\ c.kind = "file" /\ c.by = Shell
        BY DEF Content, Node
      <3>3. Sound(path, c) /\ ~HalfWritten(c)
        BY <3>2 DEF Sound, HalfWritten
      <3> HIDE DEF c
      <3>4. ~IsDir(path) /\ IsDir(ParentOf(path))
        BY <2>4, Parents DEF IsFile, TreeInv
      <3>5. node' = [node EXCEPT ![path] = c]
        BY <3>1 DEF c
      <3>6. MayPut(path, c)
        BY <3>2, <3>3, <3>4 DEF MayPut
      <3>. QED  BY <3>2, <3>5, <3>6, OneEntry
    <2>. QED  BY <2>1, <2>2, <2>3, <2>4
  <1>3. ASSUME NEW call \in DOMAIN jobs, StartChild(call) \/ ShellExits(call) \/ ChildExits(call)
        PROVE  TreeKind
    BY <1>3, OneEntry DEF StartChild, ShellExits, ChildExits
  <1>4. AllStill \/ UNCHANGED wsVars => TreeKind
    BY OneEntry DEF AllStill, wsVars
  <1>. QED  BY <1>1, <1>2, <1>3, <1>4 DEF WsNext, JobStep

(***************************************************************************)
(* The invariants, one after the other.                                    *)
(***************************************************************************)
\* Only the acting agent is affected.
LEMMA AgentMoves ==
    ASSUME TypeInv, NEW a \in Agents, NEW x \in Known, agent' = [agent EXCEPT ![a] = x]
    PROVE  /\ agent' \in [Agents -> Known] /\ agent'[a] = x
           /\ \A b \in Agents \ {a} : agent'[b] = agent[b]
  BY DEF TypeInv

\* A job that was added or changed; the others are as they were.
LEMMA JobMoves ==
    ASSUME NEW call, NEW job, WithJob(call, job)
    PROVE  /\ DOMAIN jobs' = DOMAIN jobs \cup {call} /\ jobs'[call] = job
           /\ \A c \in DOMAIN jobs : c # call => jobs'[c] = jobs[c]
  BY DEF WithJob

\* The commands of an agent that waits for one are typed.
LEMMA KilledJob ==
    ASSUME TypeInv, CallsInv, NEW a \in Agents, At(a, "wait")
    PROVE  /\ CallOf(a) \in DOMAIN jobs
           /\ [Job(a) EXCEPT !.shell = FALSE] \in JobType
           /\ ~[Job(a) EXCEPT !.shell = FALSE].shell
           /\ [Job(a) EXCEPT !.shell = FALSE].child = Job(a).child
  <1>1. CallOf(a) \in DOMAIN jobs
    BY DEF CallsInv, Working, At, InProgress
  <1>2. Job(a) \in JobType
    BY <1>1 DEF TypeInv, Job
  <1>. QED  BY <1>1, <1>2 DEF JobType

\* Types are kept, with what each place knows.
LEMMA TypeStep ==
    ASSUME TypeInv, TreeInv, ReadyInv, CallsInv, [WsNext]_wsVars
    PROVE  TypeInv'
  <1>1. profile' = profile /\ effects' \in 0..MaxEffects /\ faults' \in 0..MaxFaults
        /\ leftover' \in Nat /\ wanted' \subseteq TempNames
    <2>1. TypeInv /\ MaxEffects \in Nat /\ MaxFaults \in Nat
      BY WorkspaceAssumption
    <2>2. UNCHANGED profile
      BY StepKinds DEF AgentKind, BeginKind, OnKind, PlaceKind, LaunchKind, StopKind, EndKind,
         JobKind, StillKind, NoChange
    <2>3. \/ UNCHANGED bounds
          \/ /\ effects' = effects + 1 /\ effects < MaxEffects
             /\ UNCHANGED <<faults, leftover, wanted>>
          \/ /\ faults' = faults + 1 /\ faults < MaxFaults /\ UNCHANGED <<effects, wanted>>
             /\ leftover' \in {leftover, leftover + 1}
          \/ wanted' \subseteq wanted \cup TempNames /\ UNCHANGED <<effects, faults, leftover>>
      <3>1. leftover \in Nat
        BY DEF TypeInv
      <3>2. ASSUME NEW a \in Agents, FillTemp(a) \/ CleanUp(a) \/ Interrupt(a) \/ Kill(a)
            PROVE  \/ UNCHANGED bounds
                   \/ /\ faults' = faults + 1 /\ faults < MaxFaults /\ UNCHANGED <<effects, wanted>>
                      /\ leftover' \in {leftover, leftover + 1}
        <4>1. LeftBehind(a) => leftover' \in {leftover, leftover + 1}
          BY <3>1 DEF LeftBehind
        <4>2. CASE FillTemp(a)
          BY <4>2 DEF FillTemp, bounds
        <4>3. CASE CleanUp(a)
          BY <4>1, <4>3 DEF CleanUp, bounds
        <4>4. CASE Interrupt(a)
          BY <4>1, <4>4 DEF Interrupt
        <4>5. CASE Kill(a)
          BY <4>1, <4>5 DEF Kill
        <4>. QED  BY <3>2, <4>2, <4>3, <4>4, <4>5
      <3>6. ASSUME NEW a \in Agents, CallWriteFile(a)
            PROVE  /\ wanted' \subseteq wanted \cup TempNames
                   /\ UNCHANGED <<effects, faults, leftover>>
        BY <3>6 DEF CallWriteFile
      <3>3. ASSUME NEW a \in Agents, AgentStep(a),
                   ~(CallWriteFile(a) \/ FillTemp(a) \/ CleanUp(a) \/ Interrupt(a) \/ Kill(a))
            PROVE  UNCHANGED bounds
        BY <3>3 DEF AgentStep, CallReader, CallShell, CallUser,
         FileStep, ShellStep, NoChange, Fail, RefusePath, CheckParent, MakeParent, CheckTarget,
         CreateTemp, ReplaceTarget, LookAtFile, ReadContent, EnterDir,
         IterateDir, ClassifyEntries, SystemFails, LaunchFails, Launch, CommandEnds,
         CommandTimesOut, UserAnswers, bounds
      <3>4. JobStep => \/ UNCHANGED bounds
                       \/ /\ effects' = effects + 1 /\ effects < MaxEffects
                          /\ UNCHANGED <<faults, leftover, wanted>>
        BY DEF JobStep, StartChild, ShellExits, ChildExits, Effect, bounds
      <3>5. AllStill \/ UNCHANGED wsVars => UNCHANGED bounds
        BY DEF AllStill, wsVars, bounds
      <3>. QED  BY <3>2, <3>3, <3>4, <3>5, <3>6 DEF WsNext
    <2>. QED  BY <2>1, <2>2, <2>3 DEF TypeInv, bounds
  <1>2. node' \in [Names -> Node]
    <2>1. Directory \in Node /\ Missing \in Node /\ node \in [Names -> Node]
      BY DEF Node, TypeInv
    <2>. QED  BY <2>1, TreeKinds DEF TreeKind, MkdirKind, DropKind, PutKind, RemoveKind
  <1>3. CASE JobKind \/ StillKind
    <2>1. UNCHANGED <<agent, results, placed>>
      BY <1>3 DEF JobKind, StillKind
    <2>2. \/ UNCHANGED jobs
          \/ \E call \in DOMAIN jobs, job \in JobType : WithJob(call, job)
      BY <1>3 DEF JobKind, StillKind
    <2>3. DOMAIN jobs' \subseteq WsCall /\ \A c \in DOMAIN jobs' : jobs'[c] \in JobType
      <3>1. DOMAIN jobs \subseteq WsCall /\ \A c \in DOMAIN jobs : jobs[c] \in JobType
        BY DEF TypeInv
      <3>2. ASSUME NEW call \in DOMAIN jobs, NEW job \in JobType, WithJob(call, job)
            PROVE  /\ DOMAIN jobs' \subseteq WsCall
                   /\ \A c \in DOMAIN jobs' : jobs'[c] \in JobType
        <4>1. /\ DOMAIN jobs' = DOMAIN jobs \cup {call} /\ jobs'[call] = job
              /\ \A c \in DOMAIN jobs : c # call => jobs'[c] = jobs[c]
          BY <3>2, JobMoves
        <4>. QED  BY <3>1, <4>1
      <3>. QED  BY <2>2, <3>1, <3>2
    <2>. QED  BY <1>1, <1>2, <2>1, <2>3 DEF TypeInv
  <1>4. ASSUME NEW a \in Agents, NEW x \in Known, agent' = [agent EXCEPT ![a] = x], AgentKind(a, x)
        PROVE  TypeInv'
    <2>1. agent' \in [Agents -> Known]
      BY <1>4, AgentMoves
    <2>2. ~At(a, "idle") => CallOf(a) \in WsCall
      BY CallNumbers
    <2>3. DOMAIN jobs' \subseteq WsCall /\ \A c \in DOMAIN jobs' : jobs'[c] \in JobType
      <3>1. CASE UNCHANGED jobs
        BY <3>1 DEF TypeInv
      <3>2. CASE At(a, "wait") /\ ShellKilled(a)
        <4> DEFINE job == [Job(a) EXCEPT !.shell = FALSE]
        <4>1. CallOf(a) \in DOMAIN jobs /\ job \in JobType
          BY <3>2, KilledJob
        <4>2. WithJob(CallOf(a), job)
          BY <3>2 DEF ShellKilled
        <4> HIDE DEF job
        <4>3. /\ DOMAIN jobs' = DOMAIN jobs \cup {CallOf(a)} /\ jobs'[CallOf(a)] = job
              /\ \A c \in DOMAIN jobs : c # CallOf(a) => jobs'[c] = jobs[c]
          BY <4>2, JobMoves
        <4>. QED  BY <4>1, <4>3 DEF TypeInv
      <3>3. CASE LaunchKind(a, x)
        <4>1. [shell |-> TRUE, child |-> "none"] \in JobType /\ CallOf(a) \in WsCall
          BY <2>2, <3>3 DEF JobType, LaunchKind, At
        <4> DEFINE job == [shell |-> TRUE, child |-> "none"]
        <4>2. WithJob(CallOf(a), job)
          BY <3>3 DEF LaunchKind
        <4> HIDE DEF job
        <4>3. /\ DOMAIN jobs' = DOMAIN jobs \cup {CallOf(a)} /\ jobs'[CallOf(a)] = job
              /\ \A c \in DOMAIN jobs : c # CallOf(a) => jobs'[c] = jobs[c]
          BY <4>2, JobMoves
        <4>. QED  BY <4>1, <4>3 DEF TypeInv, job
      <3>. QED
        BY <1>4, <3>1, <3>2, <3>3 DEF AgentKind, BeginKind, OnKind, PlaceKind, StopKind, EndKind,
           Returns, NoChange
    <2>4. results' \subseteq ResultType
      BY <1>4 DEF AgentKind, BeginKind, OnKind, PlaceKind, LaunchKind, StopKind, EndKind,
         NoChange, TypeInv
    <2>5. placed' \subseteq WsCall
      BY <1>4, <2>2 DEF AgentKind, BeginKind, OnKind, PlaceKind, LaunchKind, StopKind, EndKind,
         NoChange, TypeInv, At
    <2>. QED  BY <1>1, <1>2, <2>1, <2>3, <2>4, <2>5 DEF TypeInv
  <1>. QED  BY <1>3, <1>4, StepKinds

\* Entries stay in directories, and files whole.
LEMMA TreeStep ==
    ASSUME TypeInv, TreeInv, ReadyInv, [WsNext]_wsVars
    PROVE  TreeInv'
  <1>1. /\ \A p \in Names : Exists(p)' => IsDir(ParentOf(p))'
        /\ \A p \in Names : Sound(p, node'[p])
    <2>1. /\ node \in [Names -> Node] /\ Dir \in Names /\ Dir \notin TempNames
          /\ ParentOf(Dir) # Dir
          /\ \A p \in Names : ParentOf(p) = Dir /\ node[p].kind # "missing" => node[Dir].kind = "dir"
          /\ \A p \in Names : Sound(p, node[p])
      <3>1. Dir \in Names /\ Dir \notin TempNames /\ ParentOf(Dir) # Dir
        BY Parents DEF Names, Paths
      <3>2. ASSUME NEW p \in Names, ParentOf(p) = Dir, node[p].kind # "missing"
            PROVE  node[Dir].kind = "dir"
        BY <3>1, <3>2, Parents DEF TreeInv
      <3>. QED  BY <3>1, <3>2 DEF TypeInv, TreeInv
    <2>2. \A p : Sound(p, Directory) /\ Sound(p, Missing)
      BY DEF Sound, HalfWritten, Directory, Missing
    <2>3. Directory.kind = "dir" /\ Missing.kind = "missing"
      BY DEF Directory, Missing
    <2>4. SUFFICES
            /\ \A p \in Names : ParentOf(p) = Dir /\ node'[p].kind # "missing" =>
                                 node'[Dir].kind = "dir"
            /\ \A p \in Names : Sound(p, node'[p])
      <3>1. ASSUME NEW p \in Names, Exists(p)' PROVE IsDir(ParentOf(p))'
        <4>1. node'[p].kind # "missing" /\ ParentOf(p) \in {Root, Dir}
          BY <3>1, Parents
        <4>2. CASE ParentOf(p) = Root
          BY <4>2 DEF IsDir, ParentOf
        <4>3. CASE ParentOf(p) = Dir
          <5>1. node'[Dir].kind = "dir" /\ Dir # Root
            BY <2>1, <2>4, <4>1, <4>3, Parents
          <5>2. ParentOf(p)' = Dir
            BY <4>3 DEF ParentOf
          <5>. QED  BY <5>1, <5>2 DEF IsDir
        <4>. QED  BY <4>1, <4>2, <4>3
      <3>. QED  BY <2>4, <3>1
    <2>5. CASE MkdirKind
      BY <2>1, <2>2, <2>3, <2>5 DEF MkdirKind
    <2>6. ASSUME NEW gone \in SUBSET TempNames, DropKind(gone)
          PROVE  /\ \A p \in Names : ParentOf(p) = Dir /\ node'[p].kind # "missing" =>
                                      node'[Dir].kind = "dir"
                 /\ \A p \in Names : Sound(p, node'[p])
      BY <2>1, <2>2, <2>3, <2>6 DEF DropKind
    <2>7. ASSUME NEW path \in Names, NEW content \in Node, NEW gone \in SUBSET TempNames,
                 PutKind(path, content, gone)
          PROVE  /\ \A p \in Names : ParentOf(p) = Dir /\ node'[p].kind # "missing" =>
                                      node'[Dir].kind = "dir"
                 /\ \A p \in Names : Sound(p, node'[p])
      <3>1. /\ Sound(path, content)
            /\ node' = [p \in Names |-> IF p \in gone THEN Missing
                                        ELSE IF p = path THEN content ELSE node[p]]
        BY <2>7 DEF PutKind, MayPut
      <3>2. \A p \in Names : Sound(p, node'[p])
        BY <2>1, <2>2, <3>1
      <3>3. path = Dir => node[Dir].kind # "dir"
        BY <2>1, <2>7, Parents DEF PutKind, MayPut
      <3>4. ParentOf(path) = Dir => node[Dir].kind = "dir"
        BY <2>1, <2>7, Parents DEF PutKind, MayPut
      <3>5. ASSUME NEW p \in Names, ParentOf(p) = Dir, node'[p].kind # "missing"
            PROVE  node'[Dir].kind = "dir"
        <4>1. node[Dir].kind = "dir"
          BY <2>1, <2>3, <3>1, <3>4, <3>5
        <4>. QED  BY <2>1, <3>1, <3>3, <4>1
      <3>. QED  BY <3>2, <3>5
    <2>8. ASSUME NEW path \in Names, RemoveKind(path)
          PROVE  /\ \A p \in Names : ParentOf(p) = Dir /\ node'[p].kind # "missing" =>
                                      node'[Dir].kind = "dir"
                 /\ \A p \in Names : Sound(p, node'[p])
      <3>1. \A p \in Names : node'[p] = IF p = path \/ ParentOf(p) = path THEN Missing
                                        ELSE node[p]
        BY <2>8 DEF RemoveKind
      <3>2. ASSUME NEW p \in Names, ParentOf(p) = Dir, node'[p].kind # "missing"
            PROVE  node'[Dir].kind = "dir"
        <4>1. node'[p] = node[p] /\ path # Dir
          BY <2>3, <3>1, <3>2
        <4>2. ParentOf(Dir) = Root /\ Root \notin Names
          BY <2>1, Parents
        <4>. QED  BY <2>1, <3>1, <3>2, <4>1, <4>2
      <3>. QED  BY <2>1, <2>2, <3>1, <3>2
    <2>. QED  BY <2>5, <2>6, <2>7, <2>8, TreeKinds DEF TreeKind
  <1>2. \A r \in results' : Sound(r.path, r.content) /\ Readable(r.content)
    BY StepKinds DEF AgentKind, BeginKind, OnKind, PlaceKind, LaunchKind, StopKind, EndKind,
       Returns, JobKind, StillKind, NoChange, TreeInv
  <1>. QED  BY <1>1, <1>2 DEF TreeInv

\* Where an agent is after it went on, returned or settled.
LEMMA Arrives ==
    ASSUME TypeInv, NEW a \in Agents
    PROVE  /\ \A pc : Go(a, pc) => agent'[a].pc = pc
           /\ \A outcome : Settle(a, outcome) => agent'[a].pc = "cleanup"
           /\ \A outcome, content : ReturnWith(a, outcome, content) => agent'[a].pc = "idle"
           /\ \A outcome : Return(a, outcome) => agent'[a].pc = "idle"
           /\ Fail(a) => agent'[a].pc = "idle"
  <1>1. agent \in [Agents -> Known] /\ agent[a] \in AgentType
    BY CallNumbers DEF TypeInv
  <1>2. DOMAIN agent[a] = {"pc", "n", "tool", "path", "create", "big", "entries", "outcome"}
    BY <1>1 DEF AgentType
  <1>3. ASSUME NEW pc, Go(a, pc) PROVE agent'[a].pc = pc
    BY <1>1, <1>2, <1>3 DEF Go
  <1>4. ASSUME NEW outcome, Settle(a, outcome) PROVE agent'[a].pc = "cleanup"
    BY <1>1, <1>2, <1>4 DEF Settle
  <1>5. ASSUME NEW outcome, NEW content, ReturnWith(a, outcome, content)
        PROVE  agent'[a].pc = "idle"
    BY <1>1, <1>5 DEF ReturnWith, Resting
  <1>6. ASSUME NEW outcome, Return(a, outcome) PROVE agent'[a].pc = "idle"
    BY <1>5, <1>6 DEF Return
  <1>7. ASSUME Fail(a) PROVE agent'[a].pc = "idle"
    BY <1>6, <1>7 DEF Fail
  <1>. QED  BY <1>3, <1>4, <1>5, <1>6, <1>7

\* An agent comes to replace its target by filling its temporary file only.
LEMMA ComesToReplace ==
    ASSUME TypeInv, TreeInv, NEW a \in Agents, [WsNext]_wsVars, agent'[a].pc = "replace"
    PROVE  agent'[a] = agent[a] \/ (FillTemp(a) /\ Temp(a)' = Temp(a))
  <1>1. CASE JobStep \/ AllStill \/ UNCHANGED wsVars
    BY <1>1 DEF JobStep, StartChild, ShellExits, ChildExits, Effect, AllStill, wsVars
  <1>2. ASSUME NEW b \in Agents, AgentStep(b)
        PROVE  agent'[a] = agent[a] \/ (FillTemp(a) /\ Temp(a)' = Temp(a))
    <2>1. PICK x \in Known : agent' = [agent EXCEPT ![b] = x]
      BY <1>2, CallsBegin, WriteKinds, ReadKinds, OtherKinds DEF AgentStep, FileStep
    <2>2. CASE b # a
      BY <2>1, <2>2, AgentMoves
    <2>3. CASE b = a /\ FillTemp(a)
      <3>1. Go(a, "replace")
        BY <2>3, Arrives DEF FillTemp
      <3>2. agent'[a].path = agent[a].path /\ agent'[a].n = agent[a].n
        <4>1. agent \in [Agents -> Known] /\ agent[a] \in AgentType
          BY CallNumbers DEF TypeInv
        <4>. QED  BY <3>1, <4>1 DEF Go, AgentType
      <3>3. Temp(a)' = Temp(a)
        BY <3>2 DEF Temp, CallOf, ParentOf
      <3>. QED  BY <2>3, <3>3
    <2>4. CASE b = a /\ ~FillTemp(a)
      <3>1. CASE CallWriteFile(a) \/ CallReader(a) \/ CallShell(a) \/ CallUser(a)
        <4>1. agent \in [Agents -> Known]
          BY DEF TypeInv
        <4>. QED  BY <3>1, <4>1 DEF CallWriteFile, CallReader, CallShell, CallUser, Begin
      <3>2. CASE UserAnswers(a) \/ Kill(a) \/ Interrupt(a)
        BY <3>2, Arrives DEF UserAnswers, Kill, Interrupt
      <3>3. CASE ShellStep(a)
        BY <3>3, Arrives DEF ShellStep, LaunchFails, Launch, CommandEnds, CommandTimesOut
      <3>4. CASE IterateDir(a)
        <4>1. agent \in [Agents -> Known] /\ agent[a] \in AgentType
          BY CallNumbers DEF TypeInv
        <4>2. DOMAIN agent[a] = {"pc", "n", "tool", "path", "create", "big", "entries", "outcome"}
          BY <4>1 DEF AgentType
        <4>. QED  BY <3>4, <4>1, <4>2, Arrives DEF IterateDir
      <3>5. CASE \/ RefusePath(a) \/ CheckParent(a) \/ MakeParent(a) \/ CheckTarget(a)
                 \/ CreateTemp(a) \/ ReplaceTarget(a) \/ CleanUp(a) \/ SystemFails(a)
        BY <3>5, Arrives DEF RefusePath, CheckParent, MakeParent, CheckTarget, CreateTemp,
           ReplaceTarget, CleanUp, SystemFails
      <3>6. CASE LookAtFile(a) \/ ReadContent(a) \/ EnterDir(a) \/ ClassifyEntries(a)
        BY <3>6, Arrives DEF LookAtFile, ReadContent, EnterDir, ClassifyEntries
      <3>. QED  BY <1>2, <2>4, <3>1, <3>2, <3>3, <3>4, <3>5, <3>6 DEF AgentStep, FileStep
    <2>. QED  BY <2>2, <2>3, <2>4
  <1>. QED  BY <1>1, <1>2 DEF WsNext

\* What is to replace a target stays whole.
LEMMA ReadyStep ==
    ASSUME TypeInv, TreeInv, ReadyInv, [WsNext]_wsVars
    PROVE  ReadyInv'
  <1> SUFFICES ASSUME NEW a \in Agents, agent'[a].pc = "replace"
               PROVE  ~HalfWritten(node'[Temp(a)'])
    BY DEF ReadyInv, At, HalfWritten
  <1>1. CASE FillTemp(a) /\ Temp(a)' = Temp(a)
    <2>1. At(a, "fill") /\ Temp(a) \in Names
      BY <1>1, TempTyped DEF FillTemp, At
    <2>2. /\ HalfWritten(node[Temp(a)]) => node[Temp(a)] = Half(a)
          /\ ~HalfWritten([Half(a) EXCEPT !.whole = TRUE])
      BY <2>1, HalfIs DEF At
    <2>3. node' = IF node[Temp(a)] = Half(a) THEN [node EXCEPT ![Temp(a)].whole = TRUE] ELSE node
      <3>1. ~Settle(a, "failed")
        BY Arrives
      <3>. QED  BY <1>1, <3>1 DEF FillTemp
    <2>4. DOMAIN node = Names
      BY DEF TypeInv
    <2>. QED  BY <1>1, <2>1, <2>2, <2>3, <2>4
  <1>2. CASE agent'[a] = agent[a]
    <2>1. At(a, "replace") /\ Temp(a)' = Temp(a) /\ ~HalfWritten(node[Temp(a)])
      BY <1>2 DEF At, Temp, CallOf, ParentOf, ReadyInv
    <2>2. Temp(a) \in Names /\ Temp(a) \in TempNames /\ Temp(a) # Dir /\ Temp(a).call = CallOf(a)
      BY <2>1, TempTyped, Parents DEF At
    <2>3. ~HalfWritten(Missing)
      BY DEF HalfWritten, Missing
    <2>4. CASE MkdirKind
      BY <2>1, <2>2, <2>4 DEF MkdirKind, TypeInv
    <2>5. ASSUME NEW gone \in SUBSET TempNames, DropKind(gone) PROVE ~HalfWritten(node'[Temp(a)])
      BY <2>1, <2>2, <2>3, <2>5 DEF DropKind
    <2>6. ASSUME NEW path \in Names, NEW content \in Node, NEW gone \in SUBSET TempNames,
                 PutKind(path, content, gone)
          PROVE  ~HalfWritten(node'[Temp(a)])
      <3>1. node'[Temp(a)] \in {Missing, node[Temp(a)]}
            \/ (path = Temp(a) /\ node'[Temp(a)] = content)
        BY <2>2, <2>6 DEF PutKind
      <3>2. ASSUME path = Temp(a), HalfWritten(content) PROVE FALSE
        <4>1. PICK b \in Agents : At(b, "create") /\ path = Temp(b)
          BY <2>6, <3>2 DEF PutKind, MayPut
        <4>2. Temp(b).call = CallOf(b)
          BY <4>1, TempTyped DEF At
        <4>. QED  BY <2>1, <2>2, <3>2, <4>1, <4>2 DEF CallOf, At
      <3>. QED  BY <2>1, <2>3, <3>1, <3>2
    <2>7. ASSUME NEW path \in Names, RemoveKind(path) PROVE ~HalfWritten(node'[Temp(a)])
      BY <2>1, <2>2, <2>3, <2>7 DEF RemoveKind
    <2>. QED  BY <2>1, <2>4, <2>5, <2>6, <2>7, TreeKinds DEF TreeKind
  <1>. QED  BY <1>1, <1>2, ComesToReplace

\* A step of a is about the call of a only, and takes nothing back.
OnlyCallOf(a) ==
    /\ results \subseteq results' /\ placed \subseteq placed' /\ DOMAIN jobs \subseteq DOMAIN jobs'
    /\ \A r \in results' \ results : r.call = CallOf(a)
    /\ placed' \ placed \subseteq {CallOf(a)} /\ DOMAIN jobs' \ DOMAIN jobs \subseteq {CallOf(a)}
    /\ \A c \in DOMAIN jobs : c # CallOf(a) => jobs'[c] = jobs[c]

\* Such is every step of an agent.
LEMMA StepsAreOwn ==
    ASSUME TypeInv, CallsInv, NEW a \in Agents, NEW x \in Known, AgentKind(a, x)
    PROVE  OnlyCallOf(a)
  <1>1. CASE BeginKind(a, x) \/ OnKind(a, x)
    BY <1>1 DEF BeginKind, OnKind, NoChange, OnlyCallOf
  <1>2. CASE PlaceKind(a, x)
    BY <1>2 DEF PlaceKind, OnlyCallOf
  <1>3. ASSUME NEW job, WithJob(CallOf(a), job)
        PROVE  /\ DOMAIN jobs \subseteq DOMAIN jobs'
               /\ DOMAIN jobs' \ DOMAIN jobs \subseteq {CallOf(a)}
               /\ \A c \in DOMAIN jobs : c # CallOf(a) => jobs'[c] = jobs[c]
    BY <1>3, JobMoves
  <1>4. ShellKilled(a) \/ UNCHANGED jobs =>
          /\ DOMAIN jobs \subseteq DOMAIN jobs' /\ DOMAIN jobs' \ DOMAIN jobs \subseteq {CallOf(a)}
          /\ \A c \in DOMAIN jobs : c # CallOf(a) => jobs'[c] = jobs[c]
    BY <1>3 DEF ShellKilled
  <1>5. CASE LaunchKind(a, x)
    BY <1>3, <1>5 DEF LaunchKind, OnlyCallOf
  <1>6. CASE StopKind(a, x)
    BY <1>4, <1>6 DEF StopKind, OnlyCallOf
  <1>7. CASE EndKind(a, x)
    <2>1. PICK r \in ResultType : Returns(a, r) /\ results' = results \cup {r}
      BY <1>7 DEF EndKind
    <2>. QED  BY <1>4, <1>7, <2>1 DEF EndKind, Returns, OnlyCallOf
  <1>. QED  BY <1>1, <1>2, <1>5, <1>6, <1>7 DEF AgentKind

\* The calls of the other agents go on as before.
LEMMA OthersProceed ==
    ASSUME TypeInv, CallsInv, NEW a \in Agents, NEW x \in Known,
           agent' = [agent EXCEPT ![a] = x], AgentKind(a, x)
    PROVE  /\ \A b \in Agents \ {a} : Working(b)' => InProgress(b)'
           /\ \A c \in Seen' : c[2] <= agent'[c[1]].n
  <1>1. /\ agent'[a] = x /\ \A b \in Agents \ {a} : agent'[b] = agent[b]
        /\ x.n \in 0..MaxCalls /\ agent[a].n \in 0..MaxCalls /\ x.n >= agent[a].n
    <2>1. x.n >= agent[a].n
      <3>1. agent[a].n \in Nat
        BY CallNumbers
      <3>2. x.n = agent[a].n + 1 \/ x.n = agent[a].n
        BY DEF AgentKind, BeginKind, OnKind, PlaceKind, LaunchKind, StopKind, EndKind, Same, Resting
      <3>. QED  BY <3>1, <3>2
    <2>. QED  BY <2>1, AgentMoves, CallNumbers DEF Known, AgentType
  <1>2. OnlyCallOf(a)
    BY StepsAreOwn
  <1>3. ASSUME NEW b \in Agents \ {a}, Working(b)' PROVE InProgress(b)'
    <2>1. agent'[b] = agent[b] /\ CallOf(b)' = CallOf(b) /\ CallOf(b) # CallOf(a)
      BY <1>1 DEF CallOf
    <2>2. InProgress(b)
      BY <1>3, <2>1 DEF CallsInv, Working
    <2>3. \A r \in results' : r.call # CallOf(b)
      BY <1>2, <2>1, <2>2 DEF OnlyCallOf, InProgress
    <2>4. /\ CallOf(b) \in placed' <=> CallOf(b) \in placed
          /\ CallOf(b) \in DOMAIN jobs' <=> CallOf(b) \in DOMAIN jobs
      BY <1>2, <2>1 DEF OnlyCallOf
    <2>. QED  BY <2>1, <2>2, <2>3, <2>4 DEF InProgress, At
  <1>4. ASSUME NEW c \in Seen' PROVE c[2] <= agent'[c[1]].n
    <2>1. c \in Seen \/ c = CallOf(a)
      BY <1>2, <1>4 DEF OnlyCallOf, Seen
    <2>2. CASE c = CallOf(a)
      BY <1>1, <2>2 DEF CallOf
    <2>3. CASE c \in Seen
      <3>1. c \in WsCall /\ c[2] <= agent[c[1]].n
        BY <2>3 DEF Seen, CallsInv, TypeInv, ResultType
      <3>2. c[1] \in Agents /\ c[2] \in Nat /\ agent[c[1]].n \in 0..MaxCalls
        BY <3>1, CallNumbers DEF WsCall
      <3>. QED  BY <1>1, <3>1, <3>2
    <2>. QED  BY <2>1, <2>2, <2>3
  <1>. QED  BY <1>3, <1>4

\* What is returned of a call is true, and stays so.
LEMMA ReturnedIsTrue ==
    ASSUME TypeInv, CallsInv, NEW a \in Agents, Working(a),
           NEW r \in ResultType, Returns(a, r), results' = results \cup {r}, UNCHANGED placed
    PROVE  ResultsTrue'
  <1>0. /\ InProgress(a) /\ agent[a] \in AgentType /\ Knows(agent[a])
        /\ r.call = CallOf(a) /\ r.tool = agent[a].tool
    BY CallNumbers DEF CallsInv, Returns
  <1>1. r.tool = "write_file" => ((r.outcome = "ok") <=> (r.call \in placed))
    <2>1. agent[a].tool = "write_file" => agent[a].pc \in WritePlaces
      BY <1>0 DEF Knows, Working, AgentType, Places, OtherPlaces
    <2>2. CASE At(a, "cleanup")
      <3>1. r.outcome = agent[a].outcome
        BY <2>2 DEF Returns
      <3>2. agent[a].outcome \in {"ok", "failed"}
        BY <1>0, <2>2, <3>1 DEF AgentType, Knows, At, ResultType
      <3>. QED  BY <1>0, <2>2, <3>1, <3>2 DEF InProgress
    <2>3. CASE ~At(a, "cleanup") /\ agent[a].pc \in WritePlaces
      BY <1>0, <2>3 DEF InProgress, Returns, At
    <2>. QED  BY <1>0, <2>1, <2>2, <2>3
  <1>2. r.call \in DOMAIN jobs' => /\ ~jobs'[r.call].shell
                                   /\ r.outcome = "exited" => jobs'[r.call].child # "attached"
    <2>1. CASE UNCHANGED jobs /\ (At(a, "wait") => ~Job(a).shell /\ Job(a).child # "attached")
      BY <1>0, <2>1 DEF InProgress, Job
    <2>2. CASE At(a, "wait") /\ ShellKilled(a) /\ r.outcome # "exited"
      <3> DEFINE job == [Job(a) EXCEPT !.shell = FALSE]
      <3>1. ~job.shell
        BY <2>2, KilledJob
      <3>2. WithJob(CallOf(a), job)
        BY <2>2 DEF ShellKilled
      <3> HIDE DEF job
      <3>3. jobs'[CallOf(a)] = job
        BY <3>2, JobMoves
      <3>. QED  BY <1>0, <2>2, <3>1, <3>3
    <2>. QED  BY <2>1, <2>2 DEF Returns
  <1>3. ASSUME NEW q \in results
        PROVE  /\ q.tool = "write_file" => ((q.outcome = "ok") <=> (q.call \in placed))
               /\ q.call \in DOMAIN jobs' =>
                    /\ ~jobs'[q.call].shell
                    /\ q.outcome = "exited" => jobs'[q.call].child # "attached"
    <2>1. q.call # CallOf(a)
      BY <1>0 DEF InProgress
    <2>2. /\ q.call \in DOMAIN jobs' <=> q.call \in DOMAIN jobs
          /\ q.call \in DOMAIN jobs => jobs'[q.call] = jobs[q.call]
      BY <2>1, JobMoves, ZenonT(60) DEF Returns, ShellKilled
    <2>. QED  BY <2>2 DEF CallsInv, ResultsTrue
  <1>. QED  BY <1>1, <1>2, <1>3 DEF ResultsTrue

\* What is known of the calls is kept.
LEMMA CallsStep ==
    ASSUME TypeInv, TreeInv, CallsInv, [WsNext]_wsVars
    PROVE  CallsInv'
  <1>1. CASE JobKind \/ StillKind
    <2>1. UNCHANGED <<agent, results, placed>>
      BY <1>1 DEF JobKind, StillKind
    <2>2. /\ DOMAIN jobs' = DOMAIN jobs
          /\ \A c \in DOMAIN jobs : ~jobs[c].shell =>
               ~jobs'[c].shell /\ (jobs'[c].child = "attached" => jobs[c].child = "attached")
      <3>1. CASE UNCHANGED jobs
        BY <3>1
      <3>2. ASSUME NEW call \in DOMAIN jobs, NEW job \in JobType, WithJob(call, job),
                   ~jobs[call].shell => ~job.shell /\ (job.child = "attached" =>
                                                         jobs[call].child = "attached")
            PROVE  /\ DOMAIN jobs' = DOMAIN jobs
                   /\ \A c \in DOMAIN jobs : ~jobs[c].shell =>
                        /\ ~jobs'[c].shell
                        /\ jobs'[c].child = "attached" => jobs[c].child = "attached"
        BY <3>2, JobMoves
      <3>. QED  BY <1>1, <3>1, <3>2 DEF JobKind, StillKind
    <2>3. \A c \in Seen' : c[2] <= agent'[c[1]].n
      BY <2>1, <2>2 DEF CallsInv, Seen
    <2>4. \A a \in Agents : Working(a)' => InProgress(a)'
      BY <2>1, <2>2 DEF CallsInv, Working, InProgress, CallOf, At
    <2>5. ResultsTrue'
      BY <2>1, <2>2 DEF CallsInv, ResultsTrue
    <2>. QED  BY <2>3, <2>4, <2>5 DEF CallsInv
  <1>2. ASSUME NEW a \in Agents, NEW x \in Known, agent' = [agent EXCEPT ![a] = x], AgentKind(a, x)
        PROVE  CallsInv'
    <2>1. agent'[a] = x
      BY <1>2, AgentMoves
    <2>2. (InProgress(a)' /\ ResultsTrue') \/ (~Working(a)' /\ ResultsTrue')
      <3>1. CASE BeginKind(a, x)
        <4>1. /\ CallOf(a)' = <<a, agent[a].n + 1>> /\ UNCHANGED <<jobs, results, placed>>
              /\ x.pc \notin {"cleanup", "wait"}
          BY <2>1, <3>1 DEF BeginKind, NoChange, CallOf
        <4>2. CallOf(a)' \notin Seen
          <5>1. agent[a].n \in Nat
            BY CallNumbers
          <5>. QED  BY <4>1, <5>1 DEF CallsInv
        <4>3. InProgress(a)'
          BY <2>1, <4>1, <4>2 DEF Seen, InProgress, At
        <4>4. ResultsTrue'
          BY <4>1 DEF CallsInv, ResultsTrue
        <4>. QED  BY <4>3, <4>4
      <3>2. CASE OnKind(a, x)
        <4>1. /\ CallOf(a)' = CallOf(a) /\ UNCHANGED <<jobs, results, placed>> /\ InProgress(a)
          BY <2>1, <3>2 DEF OnKind, CallOf, Same, CallsInv
        <4>2. ResultsTrue'
          BY <4>1 DEF CallsInv, ResultsTrue
        <4>3. x.pc # "dead" => InProgress(a)'
          BY <2>1, <3>2, <4>1 DEF OnKind, InProgress, At
        <4>. QED  BY <2>1, <4>2, <4>3 DEF Working
      <3>3. CASE PlaceKind(a, x)
        <4>1. /\ CallOf(a)' = CallOf(a) /\ UNCHANGED <<jobs, results>> /\ InProgress(a)
              /\ placed' = placed \cup {CallOf(a)} /\ At(a, "replace")
          BY <2>1, <3>3 DEF PlaceKind, CallOf, Same, CallsInv, Working, At
        <4>2. ResultsTrue'
          BY <4>1 DEF CallsInv, ResultsTrue, InProgress
        <4>3. InProgress(a)'
          BY <2>1, <3>3, <4>1 DEF PlaceKind, InProgress, At
        <4>. QED  BY <4>2, <4>3
      <3>4. CASE LaunchKind(a, x)
        <4> DEFINE job == [shell |-> TRUE, child |-> "none"]
        <4>1. /\ CallOf(a)' = CallOf(a) /\ UNCHANGED <<placed, results>> /\ InProgress(a)
              /\ WithJob(CallOf(a), job) /\ At(a, "launch") /\ x.pc = "wait"
          BY <2>1, <3>4 DEF LaunchKind, CallOf, Same, CallsInv, Working, At
        <4> HIDE DEF job
        <4>2. /\ DOMAIN jobs' = DOMAIN jobs \cup {CallOf(a)}
              /\ \A c \in DOMAIN jobs : c # CallOf(a) => jobs'[c] = jobs[c]
          BY <4>1, JobMoves
        <4>3. ResultsTrue'
          BY <4>1, <4>2 DEF CallsInv, ResultsTrue, InProgress
        <4>4. InProgress(a)'
          BY <2>1, <4>1, <4>2 DEF InProgress, At
        <4>. QED  BY <4>3, <4>4
      <3>5. CASE StopKind(a, x)
        <4> DEFINE job == [Job(a) EXCEPT !.shell = FALSE]
        <4>1. /\ UNCHANGED <<placed, results>> /\ InProgress(a)
              /\ WithJob(CallOf(a), job) /\ x.pc = "dead" /\ At(a, "wait")
          BY <3>5 DEF StopKind, CallsInv, Working, At, ShellKilled
        <4> HIDE DEF job
        <4>2. /\ DOMAIN jobs' = DOMAIN jobs \cup {CallOf(a)}
              /\ \A c \in DOMAIN jobs : c # CallOf(a) => jobs'[c] = jobs[c]
          BY <4>1, JobMoves
        <4>3. ResultsTrue'
          BY <4>1, <4>2 DEF CallsInv, ResultsTrue, InProgress
        <4>. QED  BY <2>1, <4>1, <4>3 DEF Working
      <3>6. CASE EndKind(a, x)
        <4>1. PICK r \in ResultType : Returns(a, r) /\ results' = results \cup {r}
          BY <3>6 DEF EndKind
        <4>2. ResultsTrue' /\ x.pc = "idle"
          BY <3>6, <4>1, ReturnedIsTrue DEF EndKind, Resting
        <4>. QED  BY <2>1, <4>2 DEF Working
      <3>. QED  BY <1>2, <3>1, <3>2, <3>3, <3>4, <3>5, <3>6 DEF AgentKind
    <2>. QED  BY <1>2, <2>2, OthersProceed DEF CallsInv
  <1>. QED  BY <1>1, <1>2, StepKinds

\* Under read_only no command is ever started and no file is ever written.
LEMMA ReadOnlyStep ==
    ASSUME TypeInv, TreeInv, CallsInv, ReadOnlyInv, [WsNext]_wsVars
    PROVE  ReadOnlyInv' /\ (profile = "read_only" => UNCHANGED node)
  <1>0. SUFFICES ASSUME profile = "read_only" \/ profile' = "read_only"
                 PROVE  /\ DOMAIN jobs' = {}
                        /\ \A a \in Agents : agent'[a].tool \notin {"write_file", "shell"}
                        /\ UNCHANGED node
    BY DEF ReadOnlyInv
  <1>1. profile = "read_only"
    BY <1>0, StepKinds DEF AgentKind, BeginKind, OnKind, PlaceKind, LaunchKind, StopKind, EndKind,
       JobKind, StillKind, NoChange
  <1>2. DOMAIN jobs = {} /\ \A a \in Agents : agent[a].tool \notin {"write_file", "shell"}
    BY <1>1 DEF ReadOnlyInv
  <1>3. \A a \in Agents : agent[a].pc \notin WritePlaces \cup {"launch", "wait"}
    BY <1>2, CallNumbers DEF Knows
  <1>4. ASSUME JobKind \/ StillKind
        PROVE  /\ DOMAIN jobs' = {}
               /\ \A b \in Agents : agent'[b].tool \notin {"write_file", "shell"}
    <2>1. ~\E call \in DOMAIN jobs : TRUE
      BY <1>2
    <2>2. UNCHANGED <<agent, jobs>>
      BY <1>4, <2>1 DEF JobKind, StillKind
    <2>. QED  BY <1>2, <2>2
  <1>5. ASSUME NEW a \in Agents, NEW x \in Known, agent' = [agent EXCEPT ![a] = x], AgentKind(a, x)
        PROVE  /\ DOMAIN jobs' = {}
               /\ \A b \in Agents : agent'[b].tool \notin {"write_file", "shell"}
    <2>1. UNCHANGED jobs
      BY <1>3, <1>5 DEF AgentKind, BeginKind, OnKind, PlaceKind, LaunchKind, StopKind, EndKind,
         Returns, NoChange, At, WritePlaces
    <2>2. x.tool \notin {"write_file", "shell"}
      BY <1>1, <1>2, <1>3, <1>5 DEF AgentKind, BeginKind, OnKind, PlaceKind, LaunchKind, StopKind,
         EndKind, Same, Resting, At, WritePlaces
    <2>. QED  BY <1>2, <1>5, <2>1, <2>2, AgentMoves
  <1>6. UNCHANGED node
    <2>1. ASSUME NEW a \in Agents, AgentStep(a) PROVE UNCHANGED node
      BY <1>3, <2>1 DEF AgentStep, CallWriteFile, CallReader, CallShell, CallUser, FileStep, ShellStep,
         NoChange, Fail, RefusePath, CheckParent, MakeParent, CheckTarget, CreateTemp,
         FillTemp, ReplaceTarget, CleanUp, LookAtFile, ReadContent, EnterDir, IterateDir,
         ClassifyEntries, SystemFails, LaunchFails, Launch, CommandEnds, CommandTimesOut,
         UserAnswers, Interrupt, Kill, At, WritePlaces
    <2>. QED  BY <1>2, <2>1 DEF WsNext, JobStep, AllStill, wsVars
  <1>. QED  BY <1>4, <1>5, <1>6, StepKinds

\* One agent more or less that writes, one temporary file more or less, and the
\* files nobody writes any more are counted in leftover.
LEMMA TempsCount ==
    ASSUME TempsInv, leftover \in Nat, NEW a, NEW t, Writing' \subseteq Writing \cup {a},
           Temps' \subseteq Temps \cup {t},
           \/ Orphans' \subseteq Orphans /\ leftover' \in {leftover, leftover + 1}
           \/ Orphans' \subseteq Orphans \cup {t} /\ leftover' = leftover + 1
    PROVE  TempsInv'
  <1>1. IsFiniteSet(Temps') /\ IsFiniteSet(Writing')
    <2>1. IsFiniteSet(Temps \cup {t}) /\ IsFiniteSet(Writing \cup {a})
      BY FS_AddElement DEF TempsInv
    <2>. QED  BY <2>1, FS_Subset
  <1>2. IsFiniteSet(Orphans) /\ IsFiniteSet(Orphans')
    <2>1. Orphans \subseteq Temps /\ Orphans' \subseteq Temps'
      BY DEF Orphans
    <2>. QED  BY <1>1, <2>1, FS_Subset DEF TempsInv
  <1>3. Cardinality(Orphans) \in Nat /\ Cardinality(Orphans') \in Nat
    BY <1>2, FS_CardinalityType
  <1>4. CASE Orphans' \subseteq Orphans /\ leftover' \in {leftover, leftover + 1}
    <2>1. Cardinality(Orphans') <= Cardinality(Orphans)
      BY <1>2, <1>4, FS_Subset
    <2>. QED  BY <1>1, <1>3, <1>4, <2>1 DEF TempsInv
  <1>5. CASE Orphans' \subseteq Orphans \cup {t} /\ leftover' = leftover + 1
    <2>1. IsFiniteSet({t}) /\ Cardinality({t}) = 1
      BY FS_Singleton
    <2>2. Cardinality(Orphans') <= Cardinality(Orphans) + 1
      BY <1>2, <1>5, <2>1, CoverBound
    <2>. QED  BY <1>1, <1>3, <1>5, <2>2 DEF TempsInv
  <1>. QED  BY <1>4, <1>5

\* An agent that changes its place, and whether it writes there.
LEMMA WritersMove ==
    ASSUME TypeInv, NEW a \in Agents, NEW x \in Known, agent' = [agent EXCEPT ![a] = x]
    PROVE  /\ Writing' = IF x.pc \in {"fill", "replace", "cleanup"} THEN Writing \cup {a}
                         ELSE Writing \ {a}
           /\ \A b \in Writing \ {a} : Temp(b)' = Temp(b)
           /\ x.path = agent[a].path /\ x.n = agent[a].n => Temp(a)' = Temp(a)
  <1>1. agent'[a] = x /\ \A b \in Agents \ {a} : agent'[b] = agent[b]
    BY AgentMoves
  <1>. QED  BY <1>1 DEF Writing, Temp, CallOf, ParentOf

\* Only write_file creates temporary files that nobody asked it to write.
LEMMA TempsMove ==
    ASSUME TypeInv, WantedInv, [WsNext]_wsVars
    PROVE  /\ wanted \subseteq wanted'
           /\ \/ Temps' \subseteq Temps
              \/ \E a \in Agents : CreateTemp(a) /\ Temps' \subseteq Temps \cup {Temp(a)}
  <1>1. \A t \in TempNames : /\ t \in Names /\ t # Dir
                             /\ Exists(t) <=> node[t].kind # "missing"
                             /\ Exists(t)' <=> node'[t].kind # "missing"
    BY Parents DEF Names
  <1>2. /\ DOMAIN node = Names /\ Missing.kind = "missing"
    BY DEF TypeInv, Missing
  <1>3. ASSUME NEW a \in Agents, AgentStep(a)
        PROVE  /\ wanted \subseteq wanted'
               /\ \/ Temps' \subseteq Temps
                  \/ CreateTemp(a) /\ Temps' \subseteq Temps \cup {Temp(a)}
    <2>1. wanted \subseteq wanted' /\ (~CallWriteFile(a) => UNCHANGED wanted)
      BY <1>3 DEF AgentStep, CallWriteFile, CallReader, CallShell, CallUser, FileStep,
         ShellStep, NoChange, Fail, bounds, RefusePath, CheckParent, MakeParent, CheckTarget,
         CreateTemp, FillTemp, ReplaceTarget, CleanUp, LookAtFile, ReadContent, EnterDir,
         IterateDir, ClassifyEntries, SystemFails, LaunchFails, Launch, CommandEnds,
         CommandTimesOut, UserAnswers, Interrupt, Kill
    <2> DEFINE Fewer == \A t \in TempNames \ wanted' :
                          node'[t].kind # "missing" => node[t].kind # "missing"
    <2>2. Fewer => Temps' \subseteq Temps
      BY <1>1, <2>1 DEF Temps
    <2>9. UNCHANGED node => Fewer
      OBVIOUS
    <2>3. CASE MakeParent(a)
      <3>1. agent[a].path \in Names /\ ParentOf(agent[a].path) \in {Root, Dir}
        BY <2>3, PlaceFacts, Parents DEF MakeParent, At
      <3>2. UNCHANGED node \/ node' = [node EXCEPT ![Dir] = Directory]
        BY <2>3, <3>1 DEF MakeParent, Fail
      <3>3. Fewer
        BY <1>1, <1>2, <2>9, <3>2
      <3>. QED  BY <2>1, <2>2, <3>3
    <2>4. CASE CreateTemp(a)
      <3>1. UNCHANGED node \/ node' = [node EXCEPT ![Temp(a)] = Half(a)]
        BY <2>4 DEF CreateTemp
      <3>2. \A t \in TempNames \ {Temp(a)} : node'[t] = node[t]
        BY <1>1, <1>2, <3>1
      <3>. QED  BY <1>1, <2>1, <2>4, <3>2 DEF Temps
    <2>5. CASE FillTemp(a)
      <3>1. At(a, "fill")
        BY <2>5 DEF FillTemp
      <3>2. Temp(a) \in Names /\ (node[Temp(a)] = Half(a) => node[Temp(a)].kind = "file")
        BY <3>1, TempTyped DEF At, Half, Content
      <3>3. UNCHANGED node \/ (node[Temp(a)] = Half(a)
                               /\ node' = [node EXCEPT ![Temp(a)].whole = TRUE])
        BY <2>5 DEF FillTemp
      <3>4. Fewer
        BY <1>1, <1>2, <2>9, <3>2, <3>3
      <3>. QED  BY <2>1, <2>2, <3>4
    <2>6. CASE ReplaceTarget(a)
      <3>1. agent[a].path \in TempNames => agent[a].path \in wanted'
        BY <2>1, <2>6, PlaceFacts DEF WantedInv, ReplaceTarget, At, WritePlaces
      <3>2. UNCHANGED node \/ node' = [node EXCEPT ![agent[a].path] = node[Temp(a)],
                                                  ![Temp(a)] = Missing]
        BY <2>6 DEF ReplaceTarget
      <3>3. Fewer
        BY <1>1, <1>2, <2>9, <3>1, <3>2
      <3>. QED  BY <2>1, <2>2, <3>3
    <2>7. CASE CleanUp(a)
      <3>1. UNCHANGED node \/ node' = [node EXCEPT ![Temp(a)] = Missing]
        BY <2>7 DEF CleanUp, Unlinked
      <3>2. Fewer
        BY <1>1, <1>2, <2>9, <3>1
      <3>. QED  BY <2>1, <2>2, <3>2
    <2>8. CASE ~(MakeParent(a) \/ CreateTemp(a) \/ FillTemp(a) \/ ReplaceTarget(a) \/ CleanUp(a))
      <3>1. UNCHANGED node
        BY <1>3, <2>8 DEF AgentStep, CallWriteFile, CallReader, CallShell, CallUser, FileStep,
           ShellStep, NoChange, Fail, RefusePath, CheckParent, CheckTarget, LookAtFile,
           ReadContent, EnterDir, IterateDir, ClassifyEntries, SystemFails, LaunchFails, Launch,
           CommandEnds, CommandTimesOut, UserAnswers, Interrupt, Kill
      <3>. QED  BY <2>1, <2>2, <2>9, <3>1
    <2>. QED  BY <2>1, <2>3, <2>4, <2>5, <2>6, <2>7, <2>8
  <1>4. CASE JobStep
    <2>1. UNCHANGED wanted
      BY <1>4 DEF JobStep, StartChild, ShellExits, ChildExits, Effect, bounds
    <2>2. ASSUME NEW t \in TempNames, node'[t].kind # "missing" PROVE node[t].kind # "missing"
      <3>1. CASE UNCHANGED node
        BY <2>2, <3>1
      <3>2. ASSUME NEW call \in DOMAIN jobs, Effect(call) PROVE node[t].kind # "missing"
        <4>1. PICK path \in Names :
                \/ node' = [p \in Names |-> IF p = path \/ ParentOf(p) = path THEN Missing
                                            ELSE node[p]]
                \/ path = Dir /\ node' = [node EXCEPT ![path] = Directory]
                \/ /\ IsFile(path) \/ (path \in Paths /\ ~Exists(path))
                   /\ \E c : node' = [node EXCEPT ![path] = c]
          BY <3>2 DEF Effect
        <4>2. t \notin Paths
          BY WorkspaceAssumption
        <4>3. IsFile(t) => node[t].kind # "missing"
          BY <1>1 DEF IsFile
        <4>. QED  BY <1>1, <1>2, <2>2, <4>1, <4>2, <4>3
      <3>. QED  BY <1>4, <3>1, <3>2 DEF JobStep, StartChild, ShellExits, ChildExits
    <2>. QED  BY <1>1, <2>1, <2>2 DEF Temps
  <1>5. CASE AllStill \/ UNCHANGED wsVars
    <2>1. UNCHANGED <<node, wanted>>
      BY <1>5 DEF AllStill, wsVars, bounds
    <2>. QED  BY <1>1, <2>1 DEF Temps
  <1>. QED  BY <1>3, <1>4, <1>5 DEF WsNext

\* Temporary files are explained by writes in progress or counted.
LEMMA TempsStep ==
    ASSUME TypeInv, TreeInv, CallsInv, TempsInv, WantedInv, [WsNext]_wsVars
    PROVE  TempsInv'
  <1>0. leftover \in Nat
    BY DEF TypeInv
  <1>1. CASE UNCHANGED agent /\ UNCHANGED leftover /\ Temps' \subseteq Temps
    <2>1. Writing' = Writing /\ \A b \in Writing : Temp(b)' = Temp(b)
      BY <1>1 DEF Writing, Temp, CallOf, ParentOf
    <2>2. Orphans' \subseteq Orphans
      BY <1>1, <2>1 DEF Orphans
    <2>. QED  BY <1>0, <1>1, <2>1, <2>2, TempsCount
  <1>2. ASSUME NEW a \in Agents, AgentStep(a) PROVE TempsInv'
    <2>1. PICK x \in Known : agent' = [agent EXCEPT ![a] = x] /\ AgentKind(a, x)
      BY <1>2, CallsBegin, WriteKinds, ReadKinds, OtherKinds DEF AgentStep, FileStep
    <2>2. /\ Writing' = IF x.pc \in {"fill", "replace", "cleanup"} THEN Writing \cup {a}
                        ELSE Writing \ {a}
          /\ \A b \in Writing \ {a} : Temp(b)' = Temp(b)
          /\ x.path = agent[a].path /\ x.n = agent[a].n => Temp(a)' = Temp(a)
          /\ Writing' \subseteq Writing \cup {a}
          /\ a \in Writing <=> agent[a].pc \in {"fill", "replace", "cleanup"}
      BY <2>1, WritersMove DEF Writing
    <2>0. agent[a] \in AgentType /\ agent'[a] = x /\ agent \in [Agents -> Known]
      BY <2>1, CallNumbers, AgentMoves DEF TypeInv
    <2>3. CASE CreateTemp(a)
      <3>1. At(a, "create") /\ UNCHANGED leftover
        BY <2>3 DEF CreateTemp, bounds
      <3>2. Same(a, x) /\ x.pc \in {"fill", "cleanup"}
        BY <2>0, <2>3 DEF CreateTemp, Go, Settle, Same, AgentType
      <3>3. Temps' \subseteq Temps \cup {Temp(a)}
        <4>1. CASE Temps' \subseteq Temps
          BY <4>1
        <4>2. ASSUME NEW b \in Agents, CreateTemp(b), Temps' \subseteq Temps \cup {Temp(b)}
              PROVE  b = a
          <5>1. agent'[b] # agent[b]
            BY <4>2, Arrives DEF CreateTemp, At
          <5>. QED  BY <2>1, <5>1, AgentMoves
        <4>3. \/ Temps' \subseteq Temps
              \/ \E b \in Agents : CreateTemp(b) /\ Temps' \subseteq Temps \cup {Temp(b)}
          BY <1>2, TempsMove DEF WsNext
        <4>. QED  BY <4>1, <4>2, <4>3
      <3>4. Temp(a)' = Temp(a) /\ Writing' = Writing \cup {a}
        BY <2>2, <3>2 DEF Same
      <3>5. Orphans' \subseteq Orphans
        BY <2>2, <3>3, <3>4 DEF Orphans
      <3>. QED  BY <1>0, <2>2, <3>1, <3>3, <3>5, TempsCount
    <2>9. CASE ~CreateTemp(a)
      <3>0. Temps' \subseteq Temps
        <4>1. ASSUME NEW b \in Agents, CreateTemp(b) PROVE FALSE
          <5>1. agent'[b] # agent[b]
            BY <4>1, Arrives DEF CreateTemp, At
          <5>2. b = a
            BY <2>1, <5>1, AgentMoves
          <5>. QED  BY <2>9, <4>1, <5>2
        <4>. QED  BY <1>2, <4>1, TempsMove DEF WsNext
      <3>1. CASE CleanUp(a)
        <4>1. x.pc \in {"idle", "dead"}
          BY <2>0, <3>1 DEF CleanUp, Return, ReturnWith, Resting, Go, AgentType
        <4>2. Writing' = Writing \ {a}
          BY <2>2, <4>1
        <4>3. CASE node' = Unlinked(a) /\ UNCHANGED leftover
          <5>1. Temp(a) \in Names
            BY <3>1, TempTyped DEF CleanUp, At
          <5>2. node'[Temp(a)].kind = "missing"
            BY <4>3, <5>1 DEF Unlinked, TypeInv, Missing
          <5>3. Temp(a) \notin Temps'
            <6>1. \A t \in TempNames : Exists(t)' <=> node'[t].kind # "missing"
              BY Parents DEF Names
            <6>. QED  BY <5>2, <6>1 DEF Temps
          <5>4. Orphans' \subseteq Orphans
            BY <2>2, <3>0, <4>2, <5>3 DEF Orphans
          <5>. QED  BY <1>0, <2>2, <3>0, <4>3, <5>4, TempsCount
        <4>4. CASE leftover' = leftover + 1
          <5>1. Orphans' \subseteq Orphans \cup {Temp(a)}
            BY <2>2, <3>0, <4>2 DEF Orphans
          <5>. QED  BY <1>0, <2>2, <3>0, <4>4, <5>1, TempsCount
        <4>. QED  BY <3>1, <4>3, <4>4 DEF CleanUp, LeftBehind
      <3>2. CASE Kill(a) \/ (Interrupt(a) /\ x.pc = "dead")
        <4>1. x.pc = "dead"
          BY <2>0, <3>2 DEF Kill, Go, AgentType
        <4>2. Writing' = Writing \ {a}
          BY <2>2, <4>1
        <4>3. LeftBehind(a) \/ (a \notin Writing /\ UNCHANGED leftover)
          <5>1. CASE Kill(a)
            BY <2>2, <5>1, PlaceFacts DEF Kill, WritePlaces
          <5>2. CASE Interrupt(a) /\ x.pc = "dead"
            BY <2>0, <2>2, <5>2, Arrives DEF Interrupt, At
          <5>. QED  BY <3>2, <5>1, <5>2
        <4>4. CASE LeftBehind(a) /\ Exists(Temp(a))
          <5>1. leftover' = leftover + 1
            BY <4>4 DEF LeftBehind
          <5>2. Orphans' \subseteq Orphans \cup {Temp(a)}
            BY <2>2, <3>0, <4>2 DEF Orphans
          <5>. QED  BY <1>0, <2>2, <3>0, <5>1, <5>2, TempsCount
        <4>5. CASE LeftBehind(a) /\ ~Exists(Temp(a))
          <5>1. leftover' = leftover
            BY <1>0, <4>5 DEF LeftBehind
          <5>2. Temp(a) \notin Temps
            BY <4>5 DEF Temps
          <5>3. Orphans' \subseteq Orphans
            BY <2>2, <3>0, <4>2, <5>2 DEF Orphans
          <5>. QED  BY <1>0, <2>2, <3>0, <5>1, <5>3, TempsCount
        <4>6. CASE a \notin Writing /\ UNCHANGED leftover
          <5>1. Orphans' \subseteq Orphans
            BY <2>2, <3>0, <4>2, <4>6 DEF Orphans
          <5>. QED  BY <1>0, <2>2, <3>0, <4>6, <5>1, TempsCount
        <4>. QED  BY <4>3, <4>4, <4>5, <4>6
      <3>3. CASE ~(CleanUp(a) \/ Kill(a) \/ (Interrupt(a) /\ x.pc = "dead"))
        <4>0. Go(a, "dead") => x.pc = "dead"
          BY <2>0, Arrives
        <4>1. UNCHANGED leftover
          BY <1>2, <3>3, <4>0 DEF AgentStep, CallWriteFile, CallReader, CallShell, CallUser,
            FileStep, ShellStep, NoChange, Fail, bounds, RefusePath, CheckParent, MakeParent,
            CheckTarget, CreateTemp, FillTemp, ReplaceTarget, LookAtFile, ReadContent, EnterDir,
            IterateDir, ClassifyEntries, SystemFails, LaunchFails, Launch, CommandEnds,
            CommandTimesOut, UserAnswers, Interrupt
        <4>2. a \in Writing => Same(a, x) /\ x.pc \in {"fill", "replace", "cleanup"}
          <5>1. SUFFICES ASSUME agent[a].pc \in {"fill", "replace", "cleanup"}
                        PROVE  Same(a, x) /\ x.pc \in {"fill", "replace", "cleanup"}
            BY DEF Writing
          <5>2. \/ FillTemp(a) \/ ReplaceTarget(a) \/ Interrupt(a)
                \/ Settle(a, "failed") /\ agent[a].pc = "replace"
            BY <1>2, <2>9, <3>3, <5>1 DEF AgentStep, CallWriteFile, CallReader, CallShell, CallUser,
              FileStep, ShellStep, Begin, At, OnPath, RefusePath, CheckParent, MakeParent,
              CheckTarget, LookAtFile, ReadContent, EnterDir, IterateDir, ClassifyEntries,
              SystemFails, LaunchFails, Launch, CommandEnds, CommandTimesOut, UserAnswers
          <5>3. Go(a, "replace") \/ \E o \in {"ok", "failed", "interrupted"} : Settle(a, o)
            BY <3>3, <4>0, <5>1, <5>2 DEF FillTemp, ReplaceTarget, Interrupt
          <5>. QED  BY <2>0, <5>3 DEF Go, Settle, Same, AgentType
        <4>3. CASE a \in Writing
          <5>1. Writing' = Writing /\ \A b \in Writing : Temp(b)' = Temp(b)
            BY <2>2, <4>2, <4>3 DEF Same
          <5>2. Orphans' \subseteq Orphans
            BY <3>0, <5>1 DEF Orphans
          <5>. QED  BY <1>0, <2>2, <3>0, <4>1, <5>2, TempsCount
        <4>4. CASE a \notin Writing
          <5>1. Orphans' \subseteq Orphans
            BY <2>2, <3>0, <4>4 DEF Orphans
          <5>. QED  BY <1>0, <2>2, <3>0, <4>1, <5>1, TempsCount
        <4>. QED  BY <4>3, <4>4
      <3>. QED  BY <3>1, <3>2, <3>3
    <2>. QED  BY <2>3, <2>9
  <1>3. ASSUME JobStep \/ AllStill \/ UNCHANGED wsVars
        PROVE  UNCHANGED agent /\ UNCHANGED leftover /\ Temps' \subseteq Temps
    <2>1. UNCHANGED agent /\ UNCHANGED leftover
      BY <1>3 DEF JobStep, StartChild, ShellExits, ChildExits, Effect, AllStill, wsVars, bounds
    <2>2. \A b \in Agents : ~CreateTemp(b)
      BY <2>1, Arrives DEF CreateTemp, At
    <2>. QED  BY <2>1, <2>2, TempsMove
  <1>. QED  BY <1>1, <1>2, <1>3 DEF WsNext

\* The temporary files that are targets stay wanted.
LEMMA WantedStep ==
    ASSUME TypeInv, TreeInv, WantedInv, [WsNext]_wsVars
    PROVE  WantedInv'
  <1>0. wanted \subseteq wanted'
    BY TempsMove
  <1>1. CASE JobStep \/ AllStill \/ UNCHANGED wsVars
    <2>1. UNCHANGED agent
      BY <1>1 DEF JobStep, StartChild, ShellExits, ChildExits, Effect, AllStill, wsVars
    <2>. QED  BY <1>0, <2>1 DEF WantedInv
  <1>2. ASSUME NEW a \in Agents, AgentStep(a) PROVE WantedInv'
    <2>1. PICK x \in Known : agent' = [agent EXCEPT ![a] = x] /\ AgentKind(a, x)
      BY <1>2, CallsBegin, WriteKinds, ReadKinds, OtherKinds DEF AgentStep, FileStep
    <2>2. agent'[a] = x /\ \A b \in Agents \ {a} : agent'[b] = agent[b]
      BY <2>1, AgentMoves
    <2>3. x.tool = "write_file" /\ x.path \in TempNames => x.path \in wanted'
      <3>1. CASE Same(a, x)
        BY <1>0, <3>1 DEF Same, WantedInv
      <3>2. CASE x = Resting(agent[a].n)
        BY <3>2 DEF Resting
      <3>3. CASE BeginKind(a, x)
        <4>1. agent \in [Agents -> Known] /\ At(a, "idle")
          BY <3>3 DEF TypeInv, BeginKind
        <4>2. CASE CallWriteFile(a)
          <5>1. PICK path \in Nameable, create \in BOOLEAN, big \in BOOLEAN :
                  /\ Begin(a, "write_file", "parent", path, create, big)
                  /\ wanted' = wanted \cup ({path} \cap TempNames)
            BY <4>2 DEF CallWriteFile
          <5>2. x.path = path
            BY <2>2, <4>1, <5>1 DEF Begin
          <5>. QED  BY <5>1, <5>2
        <4>3. CASE CallReader(a) \/ CallShell(a) \/ CallUser(a)
          BY <2>2, <4>1, <4>3 DEF CallReader, CallShell, CallUser, Begin
        <4>4. ~(CallWriteFile(a) \/ CallReader(a) \/ CallShell(a) \/ CallUser(a)) => FALSE
          <5>1. x.pc # "idle" /\ x.pc # "dead" /\ agent[a].pc = "idle"
            BY <3>3 DEF BeginKind, At
          <5>. QED
            BY <1>2, <5>1 DEF AgentStep, FileStep, ShellStep, Working, At, OnPath, RefusePath,
               CheckParent, MakeParent, CheckTarget, CreateTemp, FillTemp, ReplaceTarget, CleanUp,
               LookAtFile, ReadContent, EnterDir, IterateDir, ClassifyEntries, SystemFails,
               LaunchFails, Launch, CommandEnds, CommandTimesOut, UserAnswers, Interrupt, Kill
        <4>. QED  BY <4>2, <4>3, <4>4
      <3>. QED
        BY <2>1, <3>1, <3>2, <3>3 DEF AgentKind, OnKind, PlaceKind, LaunchKind, StopKind, EndKind
    <2>. QED  BY <1>0, <2>2, <2>3 DEF WantedInv
  <1>. QED  BY <1>1, <1>2 DEF WsNext

(***************************************************************************)
(* The theorems.                                                           *)
(***************************************************************************)
WsInv ==
    TypeInv /\ TreeInv /\ ReadyInv /\ CallsInv /\ ReadOnlyInv /\ TempsInv /\ WantedInv

\* Nothing was called, written or left behind at the start.
LEMMA InvInit == WsInit => WsInv
  <1> SUFFICES ASSUME WsInit PROVE WsInv
    OBVIOUS
  <1>1. /\ Resting(0) \in Known /\ Resting(0).pc = "idle" /\ Resting(0).tool = "none"
    BY WorkspaceAssumption DEF Resting, Known, AgentType, Knows, Places, WritePlaces, Tools
  <1>2. \A a \in Agents : agent[a] = Resting(0)
    BY DEF WsInit
  <1>3. DOMAIN jobs = {} /\ results = {} /\ placed = {} /\ wanted = {}
    BY DEF WsInit
  <1>4. PICK tree \in [Paths -> {Missing, Directory, Content(Shell, TRUE, FALSE)}] :
          /\ \A p \in Tops \cup Inner : tree[p] # Directory
          /\ \A p \in Inner : tree[Dir] # Directory => tree[p] = Missing
          /\ node = [p \in Names |-> IF p \in Paths THEN tree[p] ELSE Missing]
    BY DEF WsInit
  <1>5. /\ {Missing, Directory, Content(Shell, TRUE, FALSE)} \subseteq Node
        /\ \A c \in {Missing, Directory, Content(Shell, TRUE, FALSE)} :
             ~HalfWritten(c) /\ \A p : Sound(p, c)
        /\ Directory.kind = "dir" /\ Missing.kind = "missing"
    BY DEF Missing, Directory, Content, Node, HalfWritten, Sound
  <1>11. /\ node \in [Names -> {Missing, Directory, Content(Shell, TRUE, FALSE)}]
         /\ \A t \in TempNames : node[t] = Missing
    BY <1>4, WorkspaceAssumption DEF Names
  <1>6. TypeInv
    <2>1. agent \in [Agents -> Known]
      BY <1>1 DEF WsInit
    <2>2. node \in [Names -> Node]
      BY <1>5, <1>11
    <2>3. /\ profile \in ConfiguredProfiles /\ effects = 0 /\ faults = 0 /\ leftover = 0
          /\ MaxEffects \in Nat /\ MaxFaults \in Nat
      BY WorkspaceAssumption DEF WsInit
    <2>. QED  BY <1>3, <2>1, <2>2, <2>3 DEF TypeInv
  <1>7. TreeInv
    <2>1. ASSUME NEW p \in Names, Exists(p) PROVE IsDir(ParentOf(p))
      <3>1. /\ node[p].kind # "missing" /\ ParentOf(p) \in {Root, Dir} /\ Dir # Root
            /\ Dir \in Names /\ Dir \notin TempNames /\ IsDir(Root)
        BY <2>1, Parents
      <3>2. CASE ParentOf(p) = Dir
        <4>1. p \notin TempNames
          BY <1>5, <1>11, <3>1
        <4>2. p \in Inner
          BY <3>1, <3>2, <4>1 DEF ParentOf
        <4>3. p \in Paths /\ Dir \in Paths
          BY <4>2 DEF Paths
        <4>4. tree[Dir] = Directory
          BY <1>4, <1>5, <3>1, <4>2, <4>3
        <4>5. node[Dir] = Directory
          BY <1>4, <3>1, <4>3, <4>4
        <4>. QED  BY <1>5, <3>1, <3>2, <4>5 DEF IsDir
      <3>. QED  BY <3>1, <3>2
    <2>2. \A p \in Names : Sound(p, node[p])
      BY <1>5, <1>11
    <2>. QED  BY <1>3, <2>1, <2>2 DEF TreeInv
  <1>8. CallsInv
    BY <1>1, <1>2, <1>3 DEF CallsInv, Seen, ResultsTrue, Working
  <1>9. ReadOnlyInv
    BY <1>1, <1>2, <1>3 DEF ReadOnlyInv
  <1>10. TempsInv
    <2>1. Temps = {}
      <3>1. \A t \in TempNames : ~Exists(t)
        BY <1>5, <1>11, Parents DEF Names
      <3>. QED  BY <3>1 DEF Temps
    <2>2. Writing = {} /\ Orphans = {} /\ leftover = 0
      BY <1>1, <1>2, <2>1 DEF Writing, Orphans, WsInit
    <2>. QED  BY <2>1, <2>2, FS_EmptySet DEF TempsInv
  <1>12. ReadyInv /\ WantedInv
    BY <1>1, <1>2 DEF ReadyInv, WantedInv, At
  <1>. QED  BY <1>6, <1>7, <1>8, <1>9, <1>10, <1>12 DEF WsInv

\* Every step keeps the invariants.
LEMMA InvStep == WsInv /\ [WsNext]_wsVars => WsInv'
  BY TypeStep, TreeStep, ReadyStep, CallsStep, ReadOnlyStep, TempsStep, WantedStep DEF WsInv

\* They hold always.
LEMMA InvAlways == WsSpec => []WsInv
  BY InvInit, InvStep, PTL DEF WsSpec

\* The tree, the calls and the bounds keep their types, and entries are in
\* directories only.
THEOREM WorkspaceTypeCorrect == WsSpec => []WsTypeOK
  <1>1. WsInv => WsTypeOK
    <2> SUFFICES ASSUME WsInv PROVE WsTypeOK
      OBVIOUS
    <2>1. \A a \in Agents : agent[a].n \in 0..MaxCalls
      BY CallNumbers DEF WsInv
    <2>. QED  BY <2>1 DEF WsInv, TypeInv, TreeInv, WsTypeOK
  <1>. QED  BY <1>1, InvAlways, PTL

\* Half a file of write_file is in the tree, and read, under the name of its
\* temporary file only, and nothing that is too large is ever read.
THEOREM FilesAreWhole == WsSpec => []WholeFilesOnly
  <1>1. WsInv => WholeFilesOnly
    BY DEF WsInv, TreeInv, Sound, Readable, WholeFilesOnly
  <1>. QED  BY <1>1, InvAlways, PTL

\* What a call reported is true when it returns and stays true.
THEOREM ReportedIsTrue == WsSpec => []ResultsTrue
  <1>1. WsInv => ResultsTrue
    BY DEF WsInv, CallsInv
  <1>. QED  BY <1>1, InvAlways, PTL

\* Every temporary file that nobody asked for belongs to a write in progress, or
\* to one of the writes that were cut off and are counted.
THEOREM TempsAreExplained == WsSpec => []TempsExplained
  <1>1. WsInv => TempsExplained
    <2> SUFFICES ASSUME WsInv PROVE TempsExplained
      OBVIOUS
    <2> DEFINE f == [a \in Writing |-> Temp(a)]
               T == {f[a] : a \in Writing}
    <2>1. /\ IsFiniteSet(Temps) /\ IsFiniteSet(Writing) /\ Cardinality(Orphans) <= leftover
          /\ leftover \in Nat
      BY DEF WsInv, TempsInv, TypeInv
    <2>2. IsFiniteSet(T) /\ Cardinality(T) <= Cardinality(Writing) /\ Cardinality(T) \in Nat
          /\ Cardinality(Writing) \in Nat
      <3> HIDE DEF f
      <3>. QED  BY <2>1, ImageBound
    <2>3. IsFiniteSet(Orphans)
      BY <2>1, FS_Subset DEF Orphans
    <2>4. Temps \in SUBSET (Orphans \cup T)
      BY DEF Orphans
    <2> HIDE DEF T
    <2>5. Cardinality(Temps) <= Cardinality(Orphans) + Cardinality(T)
      BY <2>2, <2>3, <2>4, CoverBound
    <2>6. Cardinality(Temps) \in Nat /\ Cardinality(Orphans) \in Nat
      BY <2>1, <2>3, FS_CardinalityType
    <2>. QED  BY <2>1, <2>2, <2>5, <2>6 DEF TempsExplained, Temps
  <1>. QED  BY <1>1, InvAlways, PTL

\* Under read_only the workspace never changes.
THEOREM ReadOnlyIsKept == WsSpec => ReadOnlyKeepsTree
  <1>1. WsInv /\ [WsNext]_wsVars => [profile = "read_only" => UNCHANGED node]_wsVars
    BY ReadOnlyStep DEF WsInv
  <1>. QED  BY <1>1, InvAlways, PTL DEF WsSpec, ReadOnlyKeepsTree

(***************************************************************************)
(* Termination of calls, but for fairness: a call only goes forward.       *)
(***************************************************************************)
\* How many steps of its tool a call has left at most.
PlacesLeft(pc) ==
    CASE pc = "parent"   -> 7
      [] pc = "mkdir"    -> 6
      [] pc = "target"   -> 5
      [] pc = "create"   -> 4
      [] pc = "fill"     -> 3
      [] pc = "replace"  -> 2
      [] pc = "cleanup"  -> 1
      [] pc = "look"     -> 2
      [] pc = "read"     -> 1
      [] pc = "enter"    -> 3
      [] pc = "iterate"  -> 2
      [] pc = "classify" -> 1
      [] pc = "launch"   -> 2
      [] pc = "wait"     -> 1
      [] OTHER           -> 0

StepsLeft(a) == PlacesLeft(agent[a].pc)

\* Every step of a tool brings its call nearer to its end, and nobody, not the
\* user's Ctrl-C either, ever moves a call back.
CallsAdvance ==
    [][\A a \in Agents :
         /\ FileStep(a) \/ ShellStep(a) => StepsLeft(a)' < StepsLeft(a)
         /\ Working(a) => StepsLeft(a)' <= StepsLeft(a)]_wsVars

\* A step of a tool is a step forward.
LEMMA ToolAdvances ==
    ASSUME TypeInv, NEW a \in Agents, FileStep(a) \/ ShellStep(a)
    PROVE  StepsLeft(a)' < StepsLeft(a)
  <1> DEFINE here == agent[a].pc
             there == agent'[a].pc
  <1>1. ASSUME NEW pc \in Places, NEW next \in Places, here = pc, there = next,
               PlacesLeft(next) < PlacesLeft(pc)
        PROVE  StepsLeft(a)' < StepsLeft(a)
    BY <1>1 DEF StepsLeft
  <1>2. \/ here \in {"parent", "mkdir", "target", "cleanup", "look", "read", "enter", "iterate",
                     "classify", "launch", "wait"}
           /\ there = "idle"
        \/ here = "parent" /\ there \in {"mkdir", "target"}
        \/ here = "mkdir" /\ there = "target"
        \/ here = "target" /\ there = "create"
        \/ here = "create" /\ there \in {"fill", "cleanup"}
        \/ here = "fill" /\ there \in {"replace", "cleanup"}
        \/ here = "replace" /\ there = "cleanup"
        \/ here = "cleanup" /\ there = "dead"
        \/ here = "look" /\ there = "read"
        \/ here = "enter" /\ there = "iterate"
        \/ here = "iterate" /\ there = "classify"
        \/ here = "launch" /\ there = "wait"
    <2>1. CASE RefusePath(a) \/ SystemFails(a)
      BY <2>1, Arrives DEF RefusePath, SystemFails
    <2>2. CASE CheckParent(a) \/ MakeParent(a) \/ CheckTarget(a)
      BY <2>2, Arrives DEF CheckParent, MakeParent, CheckTarget, OnPath, At
    <2>3. CASE CreateTemp(a) \/ FillTemp(a)
      BY <2>3, Arrives DEF CreateTemp, FillTemp, At
    <2>4. CASE ReplaceTarget(a) \/ CleanUp(a)
      BY <2>4, Arrives DEF ReplaceTarget, CleanUp, At
    <2>5. CASE LookAtFile(a) \/ ReadContent(a) \/ EnterDir(a) \/ ClassifyEntries(a)
      BY <2>5, Arrives DEF LookAtFile, ReadContent, EnterDir, ClassifyEntries, OnPath, At
    <2>6. CASE IterateDir(a)
      <3>1. agent \in [Agents -> Known] /\ agent[a] \in AgentType
        BY CallNumbers DEF TypeInv
      <3>2. DOMAIN agent[a] = {"pc", "n", "tool", "path", "create", "big", "entries", "outcome"}
        BY <3>1 DEF AgentType
      <3>. QED  BY <2>6, <3>1, <3>2, Arrives DEF IterateDir, At
    <2>7. CASE ShellStep(a)
      BY <2>7, Arrives DEF ShellStep, LaunchFails, Launch, CommandEnds, CommandTimesOut, At
    <2>. QED  BY <2>1, <2>2, <2>3, <2>4, <2>5, <2>6, <2>7 DEF FileStep
  <1>. QED  BY <1>2 DEF StepsLeft, PlacesLeft

\* Nobody moves a call back.
LEMMA NoStepBack ==
    ASSUME TypeInv, TreeInv, NEW a \in Agents, Working(a), [WsNext]_wsVars
    PROVE  StepsLeft(a)' <= StepsLeft(a)
  <1>1. \A pc : PlacesLeft(pc) \in 0..7
    BY DEF PlacesLeft
  <1>2. CASE agent'[a] = agent[a]
    BY <1>1, <1>2 DEF StepsLeft
  <1>3. CASE FileStep(a) \/ ShellStep(a)
    BY <1>1, <1>3, ToolAdvances DEF StepsLeft
  <1>4. CASE UserAnswers(a) \/ Kill(a)
    <2>1. agent'[a].pc \in {"idle", "dead"}
      BY <1>4, Arrives DEF UserAnswers, Kill
    <2>2. PlacesLeft("idle") = 0 /\ PlacesLeft("dead") = 0
      BY DEF PlacesLeft
    <2>. QED  BY <1>1, <2>1, <2>2 DEF StepsLeft
  <1>5. CASE Interrupt(a)
    <2>1. \/ agent[a].pc \in {"fill", "replace", "cleanup"} /\ agent'[a].pc = "cleanup"
          \/ agent'[a].pc = "dead"
      BY <1>5, Arrives DEF Interrupt
    <2>2. /\ PlacesLeft("dead") = 0 /\ PlacesLeft("cleanup") = 1
          /\ PlacesLeft("replace") = 2 /\ PlacesLeft("fill") = 3
      BY DEF PlacesLeft
    <2>. QED  BY <1>1, <2>1, <2>2 DEF StepsLeft
  <1>6. CASE CallWriteFile(a) \/ CallReader(a) \/ CallShell(a) \/ CallUser(a)
    BY <1>6 DEF CallWriteFile, CallReader, CallShell, CallUser, Begin, At, Working
  <1>7. ASSUME NEW b \in Agents \ {a}, AgentStep(b)
        PROVE  agent'[a] = agent[a]
    <2>1. PICK x \in Known : agent' = [agent EXCEPT ![b] = x]
      BY <1>7, CallsBegin, WriteKinds, ReadKinds, OtherKinds DEF AgentStep, FileStep
    <2>. QED  BY <2>1, AgentMoves
  <1>8. ASSUME JobStep \/ AllStill \/ UNCHANGED wsVars
        PROVE  agent'[a] = agent[a]
    BY <1>8 DEF JobStep, StartChild, ShellExits, ChildExits, Effect, AllStill, wsVars
  <1>. QED  BY <1>2, <1>3, <1>4, <1>5, <1>6, <1>7, <1>8 DEF WsNext, AgentStep

\* A call takes at most seven steps, whatever happens around it: it returns
\* unless one of its own steps never comes.
THEOREM CallsGoForward == WsSpec => CallsAdvance
  <1>1. WsInv /\ [WsNext]_wsVars =>
          [\A a \in Agents :
             /\ FileStep(a) \/ ShellStep(a) => StepsLeft(a)' < StepsLeft(a)
             /\ Working(a) => StepsLeft(a)' <= StepsLeft(a)]_wsVars
    BY ToolAdvances, NoStepBack DEF WsInv
  <1>. QED  BY <1>1, InvAlways, PTL DEF WsSpec, CallsAdvance
==============================================================================
