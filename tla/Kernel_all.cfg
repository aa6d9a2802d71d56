SPECIFICATION FairAllSpec
CONSTANTS
    Component = {"kernel", "one", "fresh"}
    Metric = {m1, m2}
    Required <- TwoMetrics
    Run = {r1}
    Mode = {"autopilot", "manual", "approval_required"}
    MaxIterations = 5
    StallThreshold = 2
    NoRun = NoRun
    m1 = m1
    m2 = m2
    b1 = b1
    f1 = f1
    f2 = f2
    i1 = i1
    i2 = i2
    w1 = w1
    w2 = w2
    Nothing = Nothing
    Alone <- TwoImports
    Together <- TwoProcesses
CHECK_DEADLOCK FALSE
INVARIANTS TypeOK LedgersShowTheQueue WithinLimits SuccessIsEarned EveryTaskHasItsReason NeverStalls CrashLosesOneTask FinalRecordsAgree PublishedIsWhatWasCommitted
PROPERTIES PlanAnswersDiff CallsReturn CommittedGetsPublished
