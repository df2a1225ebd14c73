CONSTANTS
    get = get
    post = post
    auth = auth
    log = log
    unknown = unknown
    None = None
    Handlers <- MCHandlers
    FilterNames <- MCFilterNames
    Known <- MCKnown
    MaxFilters = 3
SPECIFICATION Spec
INVARIANTS
    TypeOK
    FiltersInOrder
    AnsweredOnce
    NoneForgotten
