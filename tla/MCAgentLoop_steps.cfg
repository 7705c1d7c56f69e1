\* Single calls over three steps with a retry each, two different good calls: the run as the
\* contract sees it, and its end.
SPECIFICATION FairSpec
CONSTANTS
    NoCall = NoCall
    Malformed = Malformed
    Fingerprints = {good, other, badArgs}
    Registered = {good, other, badArgs}
    WellFormed = {good, other}
    CallIds = {id1}
    MaxSteps = 3
    RetryAttempts = 2
    RepeatThreshold = 3
    MaxBatch = 1
INVARIANTS
    RequestsBounded
PROPERTIES
    ImplementsContract
    RunEnds
