CONSTANTS
    client1 = client1
    client2 = client2
    first = first
    second = second
    low = low
    high = high
    none = none
    external = external
    NotGiven = NotGiven
    Absent = Absent
    Unread = Unread
    Idle = Idle
    NoReply = NoReply
    Level <- Levels
    Reference <- References
    DefaultLevel = low
    DefaultReference = none
    Dto <- Dtos
    Client <- OneClient
    Id <- OneId
    Scenarios <- BackAndForth
SPECIFICATION Spec
CHECK_DEADLOCK FALSE
INVARIANT AcknowledgedHolds
