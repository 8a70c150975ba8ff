SPECIFICATION FairSpec
CONSTANTS
    Jobs = {j1}
    Forms <- FormsOfEachKind
    MaxReplies = 2
    MaxConnections = 2
    Listener = Listener
    NoId = NoId
CHECK_DEADLOCK FALSE
INVARIANTS
    TypeOK
    FinalIsTimed
    AckedIsRecorded
    ReplyFindsItsJob
    DeliveredIsHandled
    RepliesAreHeard
PROPERTIES
    LateReplyKeepsStatus
    EveryReplyHandled
    RepliesCountDown
