\* A provider call_id with a blank around it.
SPECIFICATION Spec
CONSTANTS
    c1 = c1
    c2 = c2
    padded1 = padded1
    CallIds = {c1, c2, padded1}
    Strip <- StripPadding
    Conversation <- NoTurns
    ContextTurns = 2
    MaxItems = 12
    MaxAnchors = 4
    MaxSteps = 2
    RetryAttempts = 2
    MaxCalls = 2
INVARIANTS
    OutputsCarryProviderId
