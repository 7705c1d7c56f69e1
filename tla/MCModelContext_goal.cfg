\* More session turns than anchors: session_context_turns = 50 and more.
SPECIFICATION Spec
CONSTANTS
    c1 = c1
    c2 = c2
    padded1 = padded1
    CallIds = {c1, c2, padded1}
    Strip <- StripPadding
    Conversation <- SummaryAndTurns
    ContextTurns = 3
    MaxItems = 6
    MaxAnchors = 3
    MaxSteps = 3
    RetryAttempts = 2
    MaxCalls = 2
INVARIANTS
    GoalInEveryRequest
