\* One call per step over two steps; a write that is lost or torn; two commands that read
\* the log and restore it at any time.
SPECIFICATION RunLogSpec
CONSTANTS
    NoCall = NoCall
    Malformed = Malformed
    Fingerprints = {good}
    Registered = {good}
    WellFormed = {good}
    CallIds = {id1}
    MaxSteps = 2
    RetryAttempts = 1
    RepeatThreshold = 3
    MaxBatch = 1
    Commands = {c1, c2}
    MaxLogLines = 14
    LogItems = 1
    MaxIssued = 2
    MaxLogFaults = 1
SYMMETRY CommandSymmetry
INVARIANTS
    LossBounded
    SummaryInventsNothing
    SnapshotAgreesWithCalls
    ToldTheTruth
    HalfRestored
