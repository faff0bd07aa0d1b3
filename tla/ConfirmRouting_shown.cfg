SPECIFICATION Spec
CONSTANTS
    NoAnswer = NoAnswer
    NotJson = NotJson
    None = None
    MinConfidence = 60
    Runs = {r1, r2}
    Goals <- MCGoals
    LlmOutputs <- MCLlmOutputs
    MaxTurns = 8
    StepIds = {"a", "b"}
    ReportsUnknown = TRUE
    Workflows = {w1}
    Casts <- MCCasts
    r1 = r1
    r2 = r2
    w1 = w1
    MaxKeys = 2
    MaxPauses = 1
    RunMemoryCap = 1
INVARIANT OnlyShownPlan
CHECK_DEADLOCK FALSE
