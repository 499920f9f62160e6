CONSTANTS
    f1 = f1
    f2 = f2
    fn = fn
    alt = alt
    d1 = d1
    d2 = d2
    d3 = d3
    t1 = t1
    t2 = t2
    m1 = m1
    m2 = m2
    b = b
    u = u
    l = l
    r1 = r1
    r2 = r2
    none = none
    Fingerprints = {f1, f2}
    NoConsent = none
    Shortcuts = {fn, alt}
    QueueCapacity = 1
    MaxChoices = 3
    MaxSaveFaults = 1
    MaxRuns = 1
    MaxBatches = 1
    MaxFound = 2
    Dictations = {d1, d2}
    NoKey = none
    MaxKeys = 3
    MaxKeyFaults = 2
    MaxDays = 2
    MaxOpens = 2
    Terms = {t1, t2}
    ShortTerms = {t2}
    Speeches = {d1, d2, d3}
    Window = 1
    MaxTicks = 2
    MaxObservations = 4
    MaxEdits = 1
    Models = {m1, m2}
    Paraformer = m1
    MaxClicks = 3
    MaxFaults = 1
    MaxLaunches = 1
    BuiltInUrl = b
    Addresses = {b, u, l}
    LocalAddresses = {l}
    NoUrl = none
    MaxDecisions = 3
    MaxMishaps = 1
    MaxTests = 2
    Refiners = {r1, r2}
    Services <- Offers
    Said <- Sayings
    GrowthAllowance = 1
    MinWords = 3
    FailureThreshold = 2
    MaxAsked = 4
    MaxChanged = 1
    FirstRows = 3
    MaxRows = 4
    Matching = {1, 3, 4}
    PageSize = 1
    MaxHistoryClicks = 3
    MaxPageThreads = 2
    Words = {t1, t2}
    MaxWordClicks = 5
    MaxPageFaults = 1
    Delivered <- Heard
    Revised <- Edited
    Suggested <- Named
    LongTexts <- Kept
    PartBudget = 6
    PartOverlap = 1
    PartOverhead = 1
    RequestBudget = 12
    MaxSnapshots = 2
    StartVersions = {0, 1, 3, 11, 12, 16, 18, 22, 25, 26}
    Witnesses = {d1, d2}
    FreshShortcut = alt
    MaxInterruptions = 2
    MaxOldRows = 3
SPECIFICATION Spec
CONSTRAINTS
    NamedInOrder
    OneOfTheOthers
INVARIANTS
    PartsTypeOK
    SettledShowsStored
    ConsentHolds
    HistoryKept
    SelectedIsHeld
    ObservedAsWritten
    PagesKeepTheirWord
    UpgradeKeepsData
PROPERTIES
    LearnedByEvidence
    RefinesSafely
CHECK_DEADLOCK FALSE
