SPECIFICATION Spec
CONSTANTS
    usd = usd
    eur = eur
    gbp = gbp
    USD = usd
    Codes = {usd, eur}
    Pairs <- OnePair
    MaxWrites = 2
    Clients = {c1}
    Requests <- LookupRequests
INVARIANT KnownCurrencyIsFound
