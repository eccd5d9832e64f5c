CONSTANTS
    a = a
    start = start
    approve = approve
    NoKind = NoKind
    NotGiven = NotGiven
    Absent = Absent
    NotStarted = NotStarted
    InProgress = InProgress
    Approved = Approved
    Rejected = Rejected
    Expired = Expired
    Blocked = Blocked
    Id <- Ids
    Command <- Commands
    Scenarios <- StartThenApprove
SPECIFICATION OrderedSpec
CHECK_DEADLOCK FALSE
PROPERTY StatusAdvances
