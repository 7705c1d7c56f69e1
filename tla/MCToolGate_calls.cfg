\* One suite of two scenarios, whose tools may edit the module of the tools.
SPECIFICATION GateSpec
CONSTANTS
    Files <- MCFiles
    Imports <- MCImports
    Editable <- MCEditable
    Offers <- MCOffers
    NoTools = NoTools
    BuiltIn <- MCBuiltIn
    Configurations <- MCConfigurations
    NoSelection = NoSelection
    MaxToolModules = 2
    MaxLoadedTools = 2
    MaxRegisteredTools = 3
    MaxVersion = 1
    MaxBuilds = 2
    Values <- MCValues
    Nodes <- MCNodes
    MaxNesting = 3
    Arguments <- MCArguments
    Parts <- MCParts
    Changed <- MCChanged
    InvalidCommand = InvalidCommand
    Profile = "standard"
    ConfirmRisky = TRUE
    ItemLimit = 3
    MaxItems = 5
INVARIANTS
    RunsWhatIsOnDisk
    AcceptedConforms
    PolicyOrdered
    OmissionsCounted
CHECK_DEADLOCK FALSE
