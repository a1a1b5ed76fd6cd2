SPECIFICATION Spec
CONSTANTS
    Parts = {"amounts", "history", "market", "plans", "pool", "deployment"}
    Base = 3
    Decimals = 2
    AmountBound = 23
    Addresses = {a}
    HistoryLimit = 3
    MaxWhole = 3
    MaxFraction = 3
    Hashes = {1, 2, 3, 4}
    Tabs = {t1, t2}
    Prices = {0, 1}
    MaxPrepaidPeriods = 3
    MaxMade <- MCMade
    MaxFiles = 1
    n1 = n1
    n2 = n2
    Nodes = {n1, n2}
    EndpointLists <- MCEndpoints
    Intervals = {1, 6000}
    Classes <- MCClasses
    Targets <- MCTargets
    FirstClass <- V2
    Changes <- MCChanges
    MaxHeadAge = 0
    MaxAhead = 1
    MaxHeight = 3
    MaxNow = 2
    Scripts = {"health", "mainnet", "sepolia", "artifacts", "deployment"}
    Sources = {s1, s2}
    PassingSources = {s1}
    LockedSources = {s1, s2}
    Platforms = {"linux-x64", "win32-x64"}
    PinnedPlatforms = {"linux-x64"}
    MaxCommits = 2
    Approvals = 1
    LeftOpen = {"INDEPENDENT_REVIEW_PENDING"}
    FirstSource = s1
INVARIANTS AmountsExact ReadBackAsStored LocalRecordsAgree ReportsAreTrue VerdictsAreBacked
CHECK_DEADLOCK FALSE
