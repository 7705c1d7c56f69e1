\* Two processes share a session; one fault.
SPECIFICATION Spec
CONSTANTS
    Procs = {p1, p2}
    Runs = {r1}
    NoRun = NoRun
    KeepTurns = 1
    SummaryTurns = 2
    SummaryLines = 2
    MaxLines = 3
    MaxCommands = 5
    MaxFaults = 2
SYMMETRY Interchangeable
INVARIANTS
    TypeOK
    NothingForgotten
    OnlyTornLinesLose
    RestoredOnce
    TranscriptBounded
