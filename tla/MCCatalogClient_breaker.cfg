CONSTANTS
    caller1 = caller1
    caller2 = caller2
    caller3 = caller3
    currency = currency
    NoEntry = NoEntry
    NoRequest = NoRequest
    Category <- OneCategory
    Caller <- ThreeCallers
    ErrorThreshold = 2
    EmptyVersions <- SecondVersion
    MaxVersion = 1
    MaxFaults = 4
SPECIFICATION FairClientSpec
INVARIANT ClientTypeOK
INVARIANT BreakerCoherent
PROPERTY BreakerRecovers
