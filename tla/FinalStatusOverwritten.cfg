SPECIFICATION FairSpec
CONSTANTS
    Jobs = {j1}
    Forms = {"STARTED", "SUCCEEDED"}
    MaxReplies = 2
    MaxConnections = 1
    Listener = Listener
    NoId = NoId
CHECK_DEADLOCK FALSE
PROPERTIES
    FinalStatusKept
