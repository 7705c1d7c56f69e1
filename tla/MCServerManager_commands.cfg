\* Two managers, overlapping, crashing and failing to write.
SPECIFICATION Spec
CONSTANTS
    Managers = {m1, m2}
    ServerIds = {web, docs}
    Pids = {p1, p2, p3}
    LastPort = 2
    CheckPaths = {"ascii", "other"}
    NoPid = NoPid
    MaxCommands = 3
    MaxFaults = 1
SYMMETRY Interchangeable
INVARIANTS
    TypeOK
    LiveServersRecorded
    RecordsKept
    IdsAreUnique
