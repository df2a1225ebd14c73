SPECIFICATION FairSpec
CONSTANTS
    Kinds = {"reply", "close", "query"}
    MaxRequests = 3
INVARIANTS
    TypeOK
    OneOperation
    RepliesInOrder
    NothingAfterClose
PROPERTIES
    Answered
    SessionEnds
