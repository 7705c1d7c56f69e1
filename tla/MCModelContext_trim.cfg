\* A context that is trimmed from the third step on, with retries.
SPECIFICATION Spec
CONSTANTS
    c1 = c1
    c2 = c2
    padded1 = padded1
    CallIds = {c1, c2, padded1}
    Strip <- StripPadding
    Conversation <- SummaryAndTurns
    ContextTurns = 2
    MaxItems = 8
    MaxAnchors = 4
    MaxSteps = 4
    RetryAttempts = 2
    MaxCalls = 2
INVARIANTS
    TypeOK
    OutputsSentOnce
    CallsAnswered
    OutputsPaired
    GoalLeads
