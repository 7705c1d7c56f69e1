------------------------------- MODULE ToolGate -------------------------------
(***************************************************************************)
(* What a tool call passes on its way through the loop: the tools of the   *)
(* registry are shown to the model, its call is looked up, its arguments   *)
(* are checked against the schema of the tool, the policy decides, and     *)
(* what the tool returned is cut to size on its way to the model and to    *)
(* the log.  AgentLoop has the outcome of each of these as a choice; here  *)
(* they are computed, by ToolRegistry, ToolArguments, PermissionPolicy and *)
(* ItemBounds, while tools change their own schemas and files change.      *)
(***************************************************************************)
EXTENDS ToolRegistry, PermissionPolicy, ItemBounds

CONSTANTS
    Arguments,   \* what the model may pass to a tool
    Parts,       \* parts of the commands it may pass to the shell
    Changed,     \* the schemas a tool may set on itself
    Profile, ConfirmRisky,
    MaxItems     \* bound: items in the payload of a result

ASSUME GateAssumption ==
    /\ Arguments \subseteq Values /\ Changed \subseteq Nodes
    /\ Parts \subseteq [segment : Seq(Tokens), glued : SUBSET Ends]
    /\ Profile \in Profiles /\ ConfirmRisky \in BOOLEAN
    /\ MaxItems \in Nat

VARIABLES
    shown,   \* names and schemas of the last request to the model
    call     \* the call in progress, or the last one

gateVars == <<registryVars, shown, call>>

NoCall == [stage |-> "none"]

Over == call.stage \in {"unknown", "invalid", "refused", "finished"}

\* A first token is joined to the end of the part before.
WellJoined(command) ==
    \A i \in DOMAIN command :
        "first" \in command[i].glued => i > 1 /\ "last" \in command[i - 1].glued

Commands ==
    {InvalidCommand} \union UNION {{c \in [1..n -> Parts] : WellJoined(c)} : n \in 1..2}

Find(name) == registry[Entry(name)]

GateInit ==
    /\ RegistryInit
    /\ shown = <<>>
    /\ call = NoCall

\* A build, after the run before it has ended, or a change to a file, at any time.
BuildStep ==
    /\ \/ LoadModule
       \/ FinishBuild
       \/ \E c \in Configurations : StartBuild(c)
    /\ call = NoCall
    /\ shown' = <<>>
    /\ UNCHANGED call

FileStep == (\E m \in Editable : EditFile(m)) /\ UNCHANGED <<shown, call>>

\* A request to the model: to_openai_tools.
ShowTools ==
    /\ phase = "ready"
    /\ call = NoCall
    /\ shown' = [name \in Names(registry) |-> Find(name).schema]
    /\ registry' = [i \in DOMAIN registry |-> Restored(registry[i])]
    /\ UNCHANGED <<disk, modules, phase, builds, config, todo, since, loaded, call>>

\* The model asks for a tool that is not there.
CallUnknown ==
    /\ phase = "ready" /\ shown # <<>> /\ call = NoCall
    /\ call' = [stage |-> "unknown"]
    /\ UNCHANGED <<registryVars, shown>>

\* _execute_tool_action looks the tool up and checks the arguments with its schema.
CheckArguments(name, arguments) ==
    /\ phase = "ready" /\ shown # <<>> /\ call = NoCall
    /\ LET tool == Restored(Find(name)).tool IN
       call' = IF ArgumentsAccepted(arguments, tool.schema)
               THEN [stage |-> "accepted", tool |-> name, arguments |-> arguments]
               ELSE [stage |-> "invalid"]
    /\ registry' = [registry EXCEPT ![Entry(name)] = Restored(@)]
    /\ UNCHANGED <<disk, modules, phase, builds, config, todo, since, loaded, shown>>

\* Only the shell has commands for the policy to look at.
DecideCall(command) ==
    /\ call.stage = "accepted"
    /\ LET tool == Find(call.tool).tool IN
       /\ command = InvalidCommand \/ tool.name = "shell" \/ tool.risk = "shell"
       /\ call' = [stage |-> "decided", tool |-> tool.name, risk |-> tool.risk,
                   command |-> command,
                   decision |-> Decide(Profile, ConfirmRisky, tool.name, tool.risk, command)]
    /\ UNCHANGED <<registryVars, shown>>

\* The user answers where the policy wants a confirmation.
FollowDecision(confirmed) ==
    /\ call.stage = "decided"
    /\ call' = IF call.decision = "allow" \/ (call.decision = "confirm" /\ confirmed)
               THEN [stage |-> "started", tool |-> call.tool]
               ELSE [stage |-> "refused"]
    /\ UNCHANGED <<registryVars, shown>>

\* What becomes of n items that a tool returns: they are bounded when the
\* result is stored (_bounded_stored_tool_payload), what is stored once more for
\* the model (_json_safe) and twice more for the log (_logged_value, redact).
Stored(n) == Bounded(Collection(n))
Sent(n) == Bounded(Stored(n))
Logged(n) == Bounded(Bounded(Stored(n)))

\* The tool runs and may change its own schema.
RunTool(n) ==
    /\ call.stage = "started"
    /\ \E schema \in Changed \union {Find(call.tool).tool.schema} :
         registry' = [registry EXCEPT ![Entry(call.tool)].tool.schema = schema]
    /\ call' = [stage |-> "finished", items |-> n, copies |-> {Sent(n), Logged(n)}]
    /\ UNCHANGED <<disk, modules, phase, builds, config, todo, since, loaded, shown>>

\* The content of a message on its way into the context (_bounded_context_content,
\* then _json_safe).
InContext(n) == Bounded(Bounded(Collection(n)))

\* The model answers with a message of n parts instead.
AnswerRun(n) ==
    /\ phase = "ready" /\ shown # <<>> /\ call = NoCall
    /\ call' = [stage |-> "finished", items |-> n, copies |-> {TextParts(n), InContext(n)}]
    /\ UNCHANGED <<registryVars, shown>>

\* The loop goes on: with the next call of the batch, a request or another run.
NextCall ==
    /\ Over
    /\ call' = NoCall
    /\ UNCHANGED <<registryVars, shown>>

GateNext ==
    \/ BuildStep
    \/ FileStep
    \/ ShowTools
    \/ CallUnknown
    \/ NextCall
    \/ \E name \in Names(registry), arguments \in Arguments : CheckArguments(name, arguments)
    \/ \E command \in Commands : DecideCall(command)
    \/ \E confirmed \in BOOLEAN : FollowDecision(confirmed)
    \/ \E n \in 0..MaxItems : RunTool(n) \/ AnswerRun(n)

GateSpec == GateInit /\ [][GateNext]_gateVars

(***************************************************************************)
(* Properties.                                                             *)
(***************************************************************************)
\* Arguments that get past the check conform, in every value nested in them,
\* to the schema the model was shown in this step, whatever the tool has done
\* to its own schema in earlier calls.  Only an enum of the whole arguments is
\* never looked at, although a schema may have one.
AcceptedConforms ==
    call.stage = "accepted" =>
        Conforms(call.arguments, [shown[call.tool] EXCEPT !.enum = <<>>])

Strictness == [outcome \in Outcomes |->
                  CASE outcome = "allow" -> 0 [] outcome = "confirm" -> 1 [] OTHER -> 2]

\* How strict the policy is with the call that was decided last.
Strict(profile, confirm_risky, command) ==
    Strictness[Decide(profile, confirm_risky, call.tool, call.risk, command)]

\* decide is ordered: read_only is at least as strict as standard, and standard
\* as trusted; confirm_risky_actions never changes whether a call is blocked;
\* and a command does not become more acceptable when another one is put before
\* or after it, with ; or | or a line end or a free & between them.  (An & with
\* no blank at a token of the command may hide a recursive delete: rm -r x is
\* blocked and true&&rm -r x is not.)
PolicyOrdered ==
    call.stage = "decided" =>
        /\ \A confirm \in BOOLEAN :
             LET standard == Strict("standard", confirm, call.command) IN
             /\ Strict("read_only", confirm, call.command) >= standard
             /\ Strict("trusted", confirm, call.command) <= standard
        /\ (Strict(Profile, TRUE, call.command) = 2) = (Strict(Profile, FALSE, call.command) = 2)
        /\ call.command # InvalidCommand =>
             LET now == Strictness[call.decision] IN
             \A part \in {p \in Parts : p.glued = {}} :
                 /\ Strict(Profile, ConfirmRisky, Append(call.command, part)) >= now
                 /\ Strict(Profile, ConfirmRisky, <<part>> \o call.command) >= now

\* What was cut says so truthfully: however many of the six loops a collection
\* has passed, it is within the limit and the items left in it and those its
\* marker counts as omitted are those it had at first.
OmissionsCounted ==
    call.stage = "finished" =>
        \A copy \in call.copies :
            /\ copy.length <= ItemLimit
            /\ Original(copy) = call.items
            /\ copy.marker # Whole => copy.marker.items = call.items
==============================================================================
