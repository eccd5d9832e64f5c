CONSTANTS
    run1 = run1
    run2 = run2
    currency = currency
    NoEntry = NoEntry
    NoRequest = NoRequest
    NoResult = NoResult
    Idle = Idle
    Caller <- OneRun
    Category <- OneCategory
    Categories <- JustCurrency
    DataSource = TRUE
    ErrorThreshold = 2
    EmptyVersions <- NoVersions
    MaxVersion = 0
    MaxFaults = 2
SPECIFICATION FairSpec
PROPERTY BreakerRecovers
