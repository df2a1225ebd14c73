CONSTANTS
    io = io
    pg = pg
    currencies = currencies
    rates = rates
    unknown = unknown
    Names <- MCNames
    Registered <- MCRegistered
    Rank <- MCRank
SPECIFICATION Spec
INVARIANTS
    TypeOK
    MadeOnce
    HeldIsRegistered
    NeedsComeFirst
