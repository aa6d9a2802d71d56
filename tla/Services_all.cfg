SPECIFICATION FairSpec
CONSTANTS
    Component = {"tiers", "cache", "search", "data", "llm"}
    Tiered <- DetailedCall
    Common <- SharedCache
    Page = {pa, pb, pc}
    Host <- HostOfPage
    Landing <- LandsOn
    Content = {"two", "old", "none"}
    Facts <- FactsStated
    Serp <- HitLists
    Phase <- PhasePlan
    MaxQueries <- QueryBudget
    MaxFetches <- FetchBudget
    Level = {"strict", "lax"}
    Key = {k1, k2}
    Import <- Imports
    Change <- Changes
    MaxNumber = 3
    MaxPatches = 2
    MaxBundles = 3
    MaxRun = 2
    Task <- LLMTask
    Gate <- GatesOfTask
    Model <- LLMModel
    ProviderOf <- Providers
    DefaultModel <- DefaultModels
    CostOf <- Costs
    Capable <- AllCapable
    Policy <- LLMPolicies
    Unknown = "unknown"
    Budgets = {1, 2}
    MaxAttempts = 2
    MaxPerMinute = 1
    MaxCostPerDay = 1
    Minute = 2
    Horizon = 3
    MaxDay = 1
    MaxBooked = 0
    NoRow = NoRow
    c1 = c1
    c2 = c2
    m1 = m1
    s1 = s1
    s2 = s2
    s3 = s3
    pa = pa
    pb = pb
    pc = pc
    k1 = k1
    k2 = k2
CHECK_DEADLOCK FALSE
INVARIANTS TypeOK ServedIsFresh TiersInTurn CollectedInTime StrictCommitIsBacked LoadsAreDue DataIsTrue AnswersAreAllowed LimitsHold
PROPERTY CallsReturn
