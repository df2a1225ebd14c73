CONSTANTS
    t1 = t1
    t2 = t2
    u1 = u1
    v1 = v1
    server = server
    other = other
    unused = unused
    Threads <- MCThreads
    Contexts <- MCContexts
    ContextOf <- MCContextOf
    ServerCtx = server
    Idle <- MCIdle
    Clients = {c1, c2}
    None = None
SPECIFICATION FairSpec
INVARIANTS
    TypeOK
    OneAccept
    SessionKnowsItsClient
    RunsUntilSignal
PROPERTIES
    SignalEndsIt
    ClientsServed
