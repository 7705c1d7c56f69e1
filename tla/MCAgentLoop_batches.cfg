\* Batches of up to three, over two steps: what the members of a batch do to each
\* other and repeats that span batches and steps.
SPECIFICATION Spec
CONSTANTS
    NoCall = NoCall
    Malformed = Malformed
    Fingerprints = {good, badArgs, unknown}
    Registered = {good, badArgs}
    WellFormed = {good}
    CallIds = {id1, id2, id3}
    MaxSteps = 2
    RetryAttempts = 1
    RepeatThreshold = 3
    MaxBatch = 3
SYMMETRY CallIdSymmetry
INVARIANTS
    TypeOK
    AnswersFollowCalls
    RefusalEndsTheRun
    StatusMatchesLastAnswer
    NoThirdRepeat
    RepeatStopJustified
    RejectedBatchRunsNothing
PROPERTIES
    OutcomeIsFinal
