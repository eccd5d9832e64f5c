CONSTANTS
    update1 = update1
    update2 = update2
    deletion = deletion
    customer = customer
    customerUpdated = customerUpdated
    customerDeleted = customerDeleted
    Topic <- UpdateTopic
    Agg <- MCAgg
    Event <- TwoUpdates
    Trusted <- TwoUpdates
    MaxRetries = 1
    None = None
    MaxForgets = 0
    MaxDuplicates = 0
SPECIFICATION Spec
CHECK_DEADLOCK FALSE
INVARIANT SkippedWereProcessed
