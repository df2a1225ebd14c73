SPECIFICATION FairSpec
CONSTANTS
    usd = usd
    eur = eur
    gbp = gbp
    USD = usd
    Codes = {usd, eur, gbp}
    Pairs <- UsdPairs
    MaxWrites = 2
    Clients = {c1}
    Requests <- ReadRequests
PROPERTY EventuallyListed
