CONSTANTS
    a = a
    b = b
    c = c
    x = x
    y = y
    firstCommand = firstCommand
    secondCommand = secondCommand
    reader = reader
    one = one
    other = other
    NoKind = NoKind
    NotGiven = NotGiven
    Absent = Absent
    NotStarted = NotStarted
    InProgress = InProgress
    Approved = Approved
    Rejected = Rejected
    Expired = Expired
    Blocked = Blocked
    Id <- Ids
    Value <- Values
    Command <- Commands2
    Scenarios <- MCScenarios
    RowId <- RowIds
    Column <- Values
    Reader <- Readers
    Size <- Sizes
    PageOfOne = 1
    NoCondition = NoCondition
    Heap <- MCHeap
    MaxTableWrites = 1
    ReadRequest <- One
    User <- Pair
    Asked <- Questions
    InitialCustomers <- Present
    Tree <- Trees
    AuthMode <- AuthSettings
    Lifetime <- Lifetimes
    Margin = 1
    FiveMinutes = 2
    NoToken = NoToken
    MaxTime = 2
    MaxLogins = 2
    MaxChanges = 1
    Invocation <- Pair
    DeliveryMode <- Modes
    NoOutcome = NoOutcome
    MaxFailures = 2
    eventTopic = eventTopic
    deadLetterTopic = deadLetterTopic
    Topic <- Topics
    ConsumerTopic <- Consumed
    MaxRetries = 2
    MaxAttempts = 2
SPECIFICATION FairSpec
CHECK_DEADLOCK FALSE
INVARIANT TypeOK
INVARIANT RowsGrounded
INVARIANT AcknowledgedAnnounced
INVARIANT BulkPrefix
INVARIANT RefusedCreationsLeaveNothing
INVARIANT CalmRowsAreLast
INVARIANT PagesAddUp
INVARIANT CountAgrees
INVARIANT RefusalJustified
INVARIANT OutcomeKept
INVARIANT LossExplained
PROPERTY CachedTokenInTime
PROPERTY EventsDrain
PROPERTY AnswersArrive
INVARIANT UpIsSubscribed
INVARIANT SubscribedAreListed
PROPERTY ImplementsStartup
