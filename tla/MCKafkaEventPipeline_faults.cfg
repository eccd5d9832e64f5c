CONSTANTS
    update1 = update1
    update2 = update2
    deletion = deletion
    customer = customer
    customerUpdated = customerUpdated
    customerDeleted = customerDeleted
    Topic <- UpdateTopic
    Agg <- MCAgg
    Event <- TwoUpdates
    Trusted <- JustUpdate
    MaxRetries = 1
    None = None
    MaxForgets = 1
    MaxDuplicates = 1
SPECIFICATION FairSpec
CHECK_DEADLOCK FALSE
INVARIANT TypeOK
INVARIANT NoSilentLoss
INVARIANT DeadLettersExhausted
INVARIANT KeyRoutedOncePerMemory
INVARIANT SkipJustified
INVARIANT ExactlyOnePlace
PROPERTY ImplementsDelivery
PROPERTY EverySettled
