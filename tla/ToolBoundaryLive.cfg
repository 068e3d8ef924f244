SPECIFICATION Spec
CONSTANTS
    c1 = c1
    c2 = c2
    c3 = c3
    c4 = c4
    Calls = {c1, c2, c3, c4}
    UnknownTool = {c4}
    MaxConcurrentTools = 2
    RateLimitOn = TRUE
    TimeoutOn = TRUE
    Outcomes <- OneOutcome
PROPERTIES
    ImplementsService
    EveryCallAnswered
    AdmittedStarts
    SlotsComeBack
CHECK_DEADLOCK FALSE
