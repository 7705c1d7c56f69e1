\* One process, no fault, turns that are long: the summary is cut off when it is
\* loaded (23 of 40 lines with the default configuration).
SPECIFICATION Spec
CONSTANTS
    Procs = {p1}
    Runs = {r1}
    NoRun = NoRun
    KeepTurns = 1
    SummaryTurns = 2
    SummaryLines = 1
    MaxLines = 10
    MaxCommands = 3
    MaxFaults = 0
INVARIANTS
    OlderTurnsSummarized
