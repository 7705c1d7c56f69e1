\* One manager, no fault: a server_id is used again.
SPECIFICATION Spec
CONSTANTS
    Managers = {m1}
    ServerIds = {web, docs}
    Pids = {p1, p2}
    LastPort = 2
    CheckPaths = {"ascii"}
    NoPid = NoPid
    MaxCommands = 3
    MaxFaults = 0
INVARIANTS
    ManagedServersRecorded
