SPECIFICATION Spec
CONSTANTS
    Kinds = {"reply", "postCurrency"}
    MaxRequests = 2
INVARIANT RepliesInOrder
