--------------------------- MODULE PermissionPolicy ---------------------------
(***************************************************************************)
(* PermissionPolicy.decide (policy/permissions.py): what becomes of a tool *)
(* call under a profile, as a function of the tool, its risk and, for the  *)
(* shell, of what the detectors find in the command.                       *)
(*                                                                         *)
(* A command is the sequence of its parts (_split_shell_segments): each    *)
(* has a segment, which is the sequence of its tokens, and says which of   *)
(* its ends has an & written right at it.  At the last token that & may    *)
(* stand alone (rm& ls); at the first one it joins the token to the end of *)
(* the part before (true&&rm).  A token stands for all those the detectors *)
(* treat alike, after normalization: "curl" for every fetch command, "rm"  *)
(* for every name of a deleting command and "/bin/rm" for one with a path, *)
(* "-r" for the recursive flags that are not known any more when anything  *)
(* is stuck to them (which those of one letter may be), "secret" for every *)
(* text that may name a credential, and so on; "word" is none of them.     *)
(***************************************************************************)
EXTENDS Naturals, Sequences

CONSTANT InvalidCommand   \* arguments without a command, or with a blank one

Tokens == {"word", "sudo", "X=1",                              \* wrappers
           "rm", "/bin/rm", "-r", "shutdown",                  \* deletion
           "curl", "sh", "perl", "cmd", "iex", "x.sh", "$(",   \* execution
           "powershell", "-enc",
           "git", "push", "gh", "pr", "python",                \* network
           "import requests", "__import__('requests')", "urllib.", "exec(",
           "secret", "install"}

Profiles == {"standard", "read_only", "trusted"}
Risks == {"read", "write", "shell", "interactive", "server", "unknown"}
Outcomes == {"allow", "confirm", "block"}

Ends == {"first", "last"}   \* where an & may be stuck to a token

(***************************************************************************)
(* Tokens in a segment, in a command.                                      *)
(***************************************************************************)
Wrappers == {"sudo", "X=1"}   \* sudo, env and assignments
Python == {"python"}
ShellEval == {"sh", "perl", "powershell", "python"}
ExpressionExecutors == {"iex"}
Executors == {"sh", "cmd", "powershell", "iex", "python", "x.sh"}
DynamicNetworkImport == {"__import__('requests')"}

Has(segment, tokens) == \E i \in DOMAIN segment : segment[i] \in tokens

Some(command, Holds(_)) == \E i \in DOMAIN command : Holds(command[i].segment)

AnySegmentHas(command, tokens) == \E i \in DOMAIN command : Has(command[i].segment, tokens)

\* _first_executable_token \in executables
Starts(segment, executables) ==
    \E i \in DOMAIN segment :
        /\ segment[i] \in executables
        /\ \A k \in 1..(i - 1) : segment[k] \in Wrappers

(***************************************************************************)
(* Detectors.                                                              *)
(***************************************************************************)
Fetches(segment) == Has(segment, {"curl"})
GitNetwork(segment) == Starts(segment, {"git"}) /\ Has(Tail(segment), {"push"})
GhNetwork(segment) == Starts(segment, {"gh"}) /\ Has(Tail(segment), {"pr"})
RunsPython(segment) == Starts(segment, Python)
PythonImportsNetwork(segment) == RunsPython(segment) /\ Has(segment, {"import requests"})
IsEncoded(segment) == Starts(segment, {"powershell"}) /\ Has(segment, {"-enc"})
IsExecutor(segment) == Starts(segment, Executors)

ExecutesWhatItFetches(segment) ==
    /\ Fetches(segment)
    /\ \/ Has(segment, ExpressionExecutors)
       \/ Starts(segment, ShellEval) /\ Has(segment, {"$("})

PythonNetwork(command) ==
    \/ Some(command, RunsPython) /\ AnySegmentHas(command, DynamicNetworkImport)
    \/ Some(command, PythonImportsNetwork)

\* Seeded fault: only the last segment is looked at.
FaultFetchThenExecute(command) ==
    \E i \in DOMAIN command : /\ i < Len(command)
                              /\ Fetches(command[i].segment)
                              /\ IsExecutor(command[Len(command)].segment)

FetchThenExecute(command) ==
    \E i, j \in DOMAIN command :
        i < j /\ Fetches(command[i].segment) /\ IsExecutor(command[j].segment)

RemoteExecution(command) ==
    \/ PythonNetwork(command) /\ AnySegmentHas(command, {"exec("})
    \/ Some(command, ExecutesWhatItFetches)
    \/ FetchThenExecute(command)

\* This detector takes only ; and | for the end of a token, not &: one of the
\* tokens stands alone in the part, or is the last name in a path.
StandsAlone(part, tokens) ==
    \E i \in DOMAIN part.segment :
        /\ part.segment[i] \in tokens
        /\ i = 1 /\ part.segment[i] # "/bin/rm" => "first" \notin part.glued
        /\ i = Len(part.segment) => "last" \notin part.glued

RecursiveDelete(command) ==
    /\ \E i \in DOMAIN command : StandsAlone(command[i], {"rm", "/bin/rm"})
    /\ \E i \in DOMAIN command : StandsAlone(command[i], {"-r"})

NetworkAccess(command) ==
    \/ Some(command, Fetches) \/ Some(command, GitNetwork) \/ Some(command, GhNetwork)
    \/ PythonNetwork(command)
    \/ AnySegmentHas(command, {"urllib."})

(***************************************************************************)
(* decide                                                                  *)
(***************************************************************************)
MustBlock(command) ==
    \/ AnySegmentHas(command, {"shutdown"})
    \/ Some(command, IsEncoded)
    \/ RemoteExecution(command)
    \/ RecursiveDelete(command)
    \/ NetworkAccess(command) /\ AnySegmentHas(command, {"secret"})

ShouldConfirm(command) == NetworkAccess(command) \/ AnySegmentHas(command, {"install"})

Confirms(profile, confirm_risky) == confirm_risky /\ profile # "trusted"

DecideShell(profile, confirm_risky, command) ==
    IF MustBlock(command) THEN "block"
    ELSE IF Confirms(profile, confirm_risky) /\ ShouldConfirm(command) THEN "confirm"
    ELSE "allow"

\* Writing files and managing servers.
DecideChange(profile, confirm_risky) ==
    CASE profile = "read_only" -> "block"
      [] profile # "read_only" /\ Confirms(profile, confirm_risky) -> "confirm"
      [] OTHER -> "allow"

\* Seeded fault: the profile is left to the detectors.
FaultDecide(profile, confirm_risky, tool, risk, command) ==
    CASE tool = "write_file" \/ risk = "write" -> DecideChange(profile, confirm_risky)
      [] tool = "shell" \/ risk = "shell" ->
           IF command = InvalidCommand THEN "block"
           ELSE DecideShell(profile, confirm_risky, command)
      [] OTHER -> "allow"

\* The first branch that applies decides: the name of a tool before its risk.
Decide(profile, confirm_risky, tool, risk, command) ==
    CASE tool = "write_file" \/ risk = "write" -> DecideChange(profile, confirm_risky)
      [] tool # "write_file" /\ risk # "write" /\ (tool = "shell" \/ risk = "shell") ->
           IF profile = "read_only" \/ command = InvalidCommand THEN "block"
           ELSE DecideShell(profile, confirm_risky, command)
      [] ~(tool \in {"write_file", "shell"}) /\ risk \in {"read", "interactive"} -> "allow"
      [] ~(tool \in {"write_file", "shell"}) /\ risk = "server" ->
           DecideChange(profile, confirm_risky)
      [] OTHER -> IF profile = "read_only" THEN "block" ELSE "confirm"
==============================================================================
