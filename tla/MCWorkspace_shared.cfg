\* Two agents with a call each, every pair of tools on every path; commands that change the
\* tree twice; two faults.
SPECIFICATION WsSpec
CONSTANTS
    InvalidCommand = InvalidCommand
    Agents = {a1, a2}
    ConfiguredProfiles = {"read_only", "standard"}
    ConfirmRisky = TRUE
    Commands <- ListAndDelete
    Dir = Dir
    Tops = {}
    Inner = {inner}
    Root = Root
    Outside = Outside
    Shell = Shell
    MaxEntries = 1
    MaxCalls = 1
    MaxEffects = 2
    MaxFaults = 2
INVARIANTS
    WsTypeOK
    WholeFilesOnly
    ResultsTrue
    TempsExplained
PROPERTIES
    ReadOnlyKeepsTree
    CallsReturn
