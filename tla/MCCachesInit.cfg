SPECIFICATION FairSpec
CONSTANTS
    currencies = currencies
    rates = rates
    derived = derived
    other = other
    NoCache = NoCache
    Caches = {currencies, rates, derived, other}
    Source <- MCSource
INVARIANTS
    TypeOK
    FilledAfterSource
    NoLostWakeup
    StartsFilled
PROPERTY StartEnds
