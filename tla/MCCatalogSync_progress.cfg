CONSTANTS
    run1 = run1
    run2 = run2
    currency = currency
    NoEntry = NoEntry
    NoRequest = NoRequest
    NoResult = NoResult
    Idle = Idle
    Caller <- TwoRuns
    Category <- OneCategory
    Categories <- JustCurrency
    DataSource = TRUE
    ErrorThreshold = 1
    EmptyVersions <- NoVersions
    MaxVersion = 1
    MaxFaults = 1
SPECIFICATION FairSpec
PROPERTY RunsFinish
PROPERTY HashConverges
