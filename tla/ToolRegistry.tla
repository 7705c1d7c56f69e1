----------------------------- MODULE ToolRegistry -----------------------------
(***************************************************************************)
(* Where the tools of a run come from: build_default_registry (cli.py),    *)
(* tools/loading.py and tools/registry.py.  An evaluation builds a         *)
(* registry for each of its scenarios in one process, and what a scenario  *)
(* runs may edit the files of the tool modules.                            *)
(*                                                                         *)
(* A module is the sequence of the names in its dotted path.  An imported  *)
(* module is the version of the file it was executed from and those of the *)
(* modules it is bound to.  A build is all or nothing, and a ValueError of *)
(* a build ends the command, so that what a failed import leaves in        *)
(* sys.modules is not told apart.                                          *)
(***************************************************************************)
EXTENDS ToolArguments, FiniteSets

CONSTANTS
    Files,           \* modules there are files for
    Imports,         \* the modules each of them imports at its top
    Editable,        \* the modules whose files change
    Offers,          \* what each file may define: sequences of tools, or NoTools
    NoTools,         \* neither TOOLS nor register_tools
    BuiltIn,         \* the tools build_default_registry starts with
    Configurations,  \* [modules: tool_modules, enabled: enabled_tools or NoSelection]
    NoSelection,
    MaxToolModules, MaxLoadedTools, MaxRegisteredTools,
    MaxVersion,      \* bound: how often a file changes
    MaxBuilds        \* bound: scenarios in a suite

Tool == [name : STRING, risk : STRING, schema : Nodes]

ASSUME RegistryAssumption ==
    /\ IsFiniteSet(Files) /\ Editable \subseteq Files
    /\ \A m \in Files : m \in Seq(STRING) /\ m # <<>>
    /\ Imports \in [Files -> SUBSET Files]
    /\ \A m \in Files : \A tools \in Offers[m] : tools = NoTools \/ tools \in Seq(Tool)
    /\ BuiltIn \in Seq(Tool)
    /\ \A c \in Configurations : c.enabled = NoSelection \/ c.enabled \in Seq(STRING)
    /\ \A c \in Configurations : c.modules \in Seq(Seq(STRING))

ToolRisks == {"interactive", "read", "server", "shell", "write"}

Program == <<"agentskeleton">>

VARIABLES
    disk,       \* of a file: its version, whether it can be imported, what it defines
    modules,    \* sys.modules
    phase,      \* "idle", "loading", "ready", or "failed": the command has ended
    builds,     \* how many were started
    config,     \* the configuration of the last one
    todo,       \* its modules not loaded yet
    since,      \* the versions on disk when it started
    loaded,     \* the tools of its modules so far
    registry    \* the tools in it, each with the snapshot of its schema

registryVars == <<disk, modules, phase, builds, config, todo, since, loaded, registry>>

(***************************************************************************)
(* Packages.                                                               *)
(***************************************************************************)
IsPackageOf(package, module) ==
    Len(package) <= Len(module) /\ SubSeq(module, 1, Len(package)) = package

Parents(module) == {SubSeq(module, 1, n) : n \in 1..(Len(module) - 1)}

\* Seeded fault: the packages of the module stay in sys.modules.
FaultPrefixes(module) == {module}

\* _module_cache_prefixes, without the packages of the program itself.
Prefixes(module) == {module} \union {p \in Parents(module) : ~IsPackageOf(Program, p)}

Evicts(module, other) == \E p \in Prefixes(module) : IsPackageOf(p, other)

(***************************************************************************)
(* Importing.  Parents are imported first, then the module is executed and *)
(* imports what it needs; what is in sys.modules is taken from there.      *)
(***************************************************************************)
Needs(module) == (Parents(module) \union Imports[module]) \intersect Files

Cached(module) == {m \in DOMAIN modules : ~Evicts(module, m)}

\* The modules that importing this one executes.
Executed(module) ==
    LET found[n \in 0..Cardinality(Files)] ==
            IF n = 0 THEN {module}
            ELSE found[n - 1] \union UNION {Needs(m) : m \in found[n - 1] \ Cached(module)}
    IN  found[Cardinality(Files)] \ Cached(module)

CanImport(module) ==
    /\ module \in Files
    /\ \A m \in Executed(module) : disk[m].imports

Version(module, m) == IF m \in Cached(module) THEN modules[m].version ELSE disk[m].version

Imported(module) ==
    [m \in Cached(module) \union Executed(module) |->
        IF m \in Cached(module) THEN modules[m]
        ELSE [version |-> disk[m].version,
              uses |-> [other \in Imports[m] |-> Version(module, other)]]]

\* The tools a module defines, bound to what it was imported with.
Tools(module) ==
    [i \in DOMAIN disk[module].defines |->
        [tool |-> disk[module].defines[i], home |-> module, code |-> Imported(module)[module]]]

(***************************************************************************)
(* Registering.                                                            *)
(***************************************************************************)
Names(entries) == {entries[i].tool.name : i \in DOMAIN entries}

\* register does not refuse any of these tools, in a registry of their own.
CanRegister(entries) ==
    /\ \A i \in DOMAIN entries : /\ entries[i].tool.risk \in ToolRisks
                                 /\ SchemaValid(entries[i].tool.schema)
    /\ \A i, j \in DOMAIN entries : entries[i].tool.name = entries[j].tool.name => i = j
    /\ Len(entries) <= MaxRegisteredTools

\* The schema of a tool can change, what was taken of it in register does not.
Registered(entries) ==
    [i \in DOMAIN entries |-> [tool |-> entries[i].tool, schema |-> entries[i].tool.schema,
                               home |-> entries[i].home, code |-> entries[i].code]]

Entry(name) == CHOOSE i \in DOMAIN registry : registry[i].tool.name = name

\* get: the tool has its schema back.
Restored(entry) == [entry EXCEPT !.tool.schema = entry.schema]

BuiltInEntries ==
    [i \in DOMAIN BuiltIn |->
        [tool |-> BuiltIn[i], home |-> Program, code |-> [version |-> 0, uses |-> <<>>]]]

Selected(entries, names) ==
    [i \in DOMAIN names |->
        entries[CHOOSE k \in DOMAIN entries : entries[k].tool.name = names[i]]]

(***************************************************************************)
(* Actions.                                                                *)
(***************************************************************************)
RegistryInit ==
    /\ \E defines \in [Files -> UNION {Offers[m] : m \in Files}] :
         /\ \A m \in Files : defines[m] \in Offers[m]
         /\ disk = [m \in Files |-> [version |-> 0, imports |-> TRUE, defines |-> defines[m]]]
    /\ modules = [m \in {Program} |-> [version |-> 0, uses |-> <<>>]]
    /\ phase = "idle"
    /\ builds = 0
    /\ config = [modules |-> <<>>, enabled |-> NoSelection]
    /\ todo = <<>>
    /\ since = [m \in Files |-> 0]
    /\ loaded = <<>>
    /\ registry = <<>>

\* External: the file of a module is changed, by a tool or by its author.
EditFile(m) ==
    /\ phase # "failed"
    /\ disk[m].version < MaxVersion
    /\ \/ disk' = [disk EXCEPT ![m].version = @ + 1, ![m].imports = ~@]
       \/ \E defines \in Offers[m] :
            disk' = [disk EXCEPT ![m] = [version |-> @.version + 1, imports |-> TRUE,
                                         defines |-> defines]]
    /\ UNCHANGED <<modules, phase, builds, config, todo, since, loaded, registry>>

StartBuild(c) ==
    /\ phase \in {"idle", "ready"}
    /\ builds < MaxBuilds
    /\ builds' = builds + 1
    /\ config' = c
    /\ phase' = IF Len(c.modules) > MaxToolModules THEN "failed" ELSE "loading"
    /\ todo' = c.modules
    /\ since' = [m \in Files |-> disk[m].version]
    /\ loaded' = <<>>
    /\ registry' = <<>>
    /\ UNCHANGED <<disk, modules>>

\* One turn of the loop in load_tools_from_modules.
LoadModule ==
    /\ phase = "loading"
    /\ todo # <<>>
    /\ LET m == Head(todo) IN
       IF CanImport(m) /\ disk[m].defines # NoTools
            /\ Len(loaded) + Len(disk[m].defines) <= MaxLoadedTools
       THEN /\ modules' = Imported(m)
            /\ loaded' = loaded \o Tools(m)
            /\ todo' = Tail(todo)
            /\ UNCHANGED phase
       ELSE phase' = "failed" /\ UNCHANGED <<modules, loaded, todo>>
    /\ UNCHANGED <<disk, builds, config, since, registry>>

\* build_default_registry gets through: all tools can be registered together,
\* and if some are enabled, these exist and can be registered again.
CanBuild(entries, enabled) ==
    /\ CanRegister(entries)
    /\ enabled # NoSelection =>
         /\ \A i \in DOMAIN enabled : enabled[i] \in Names(entries)
         /\ CanRegister(Selected(entries, enabled))

FinishBuild ==
    /\ phase = "loading"
    /\ todo = <<>>
    /\ LET entries == BuiltInEntries \o loaded
       IN  IF CanBuild(entries, config.enabled)
           THEN /\ registry' = Registered(IF config.enabled = NoSelection THEN entries
                                          ELSE Selected(entries, config.enabled))
                /\ phase' = "ready"
           ELSE phase' = "failed" /\ UNCHANGED registry
    /\ UNCHANGED <<disk, modules, builds, config, todo, since, loaded>>

(***************************************************************************)
(* Properties.                                                             *)
(***************************************************************************)
SamePackage(m, other) == m[1] = other[1] /\ m[1] # Program[1]

\* A registry runs no code older than its build: each of its tools was
\* executed from the file as it was when the build started, or later, and so
\* were the modules it imports from its own package.  A tool edited between
\* two scenarios, or only a helper next to it, is the one that runs.
RunsWhatIsOnDisk ==
    phase = "ready" =>
        \A i \in DOMAIN registry :
            LET entry == registry[i] IN
            entry.home # Program =>
                /\ entry.code.version >= since[entry.home]
                /\ \A other \in DOMAIN entry.code.uses :
                     SamePackage(entry.home, other) => entry.code.uses[other] >= since[other]
==============================================================================
