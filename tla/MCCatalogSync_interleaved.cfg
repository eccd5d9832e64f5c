CONSTANTS
    run1 = run1
    run2 = run2
    currency = currency
    NoEntry = NoEntry
    NoRequest = NoRequest
    NoResult = NoResult
    Idle = Idle
    Caller <- TwoRuns
    Category <- OneCategory
    Categories <- CurrencyTwice
    DataSource = TRUE
    ErrorThreshold = 2
    EmptyVersions <- SecondVersion
    MaxVersion = 1
    MaxFaults = 2
SPECIFICATION Spec
INVARIANT TypeOK
INVARIANT UpToDateWasStored
INVARIANT RequestsOwned
PROPERTY ImplementsClient
SYMMETRY RunSymmetry
