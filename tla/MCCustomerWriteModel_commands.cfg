CONSTANTS
    client1 = client1
    client2 = client2
    first = first
    second = second
    low = low
    high = high
    none = none
    external = external
    NotGiven = NotGiven
    Absent = Absent
    Unread = Unread
    Idle = Idle
    NoReply = NoReply
    Level <- Levels
    Reference <- References
    DefaultLevel = low
    DefaultReference = none
    Dto <- Dtos
    Client <- TwoClients
    Id <- TwoIds
    Scenarios <- RacingCommands
SPECIFICATION FairSpec
CHECK_DEADLOCK FALSE
INVARIANT TypeOK
INVARIANT RowsAuthored
INVARIANT CachedAnswersBacked
INVARIANT UnracedRowsAreLast
PROPERTY CommandsAnswered
PROPERTY EventsDrain
