SPECIFICATION Spec
CONSTANTS
    usd = usd
    eur = eur
    gbp = gbp
    USD = usd
    Codes = {usd, eur, gbp}
    Pairs <- UsdPairs
    MaxWrites = 2
    Clients = {c1, c2}
    Requests <- ExchangeRequests
SYMMETRY ClientSymmetry
INVARIANTS
    TypeOK
    CachesBehindDb
    NoForeignKeyError
    WriteRepliesAreCurrent
    RatesUsedAreFresh
