CONSTANTS
    Name <- MCName
    Code <- MCCode
    Sign <- MCSign
    BaseCode <- MCBase
    TargetCode <- MCTarget
    Rate <- MCRate
    MaxName = 3
    MaxSign = 3
    MaxRate = 7
    USD <- MCUSD
    Scale = 1000
    Precision = 1000
    AmountScale = 2
    Null = Null
    RateValue <- MCRateValue
    AmountValue <- MCAmountValue
    MaxCurrencies = 3
    CurrencyForms <- MCCurrencyForms
    RateForms <- MCRateForms
    PatchForms <- MCPatchForms
    RawBodies <- MCRawBodies
    Lookups <- MCLookups
    PairLookups <- MCPairLookups
    Exchanges <- MCExchanges
    Worth <- MCWorth
SPECIFICATION Spec
INVARIANTS
    TypeOK
    FieldsArrive
    OneRowPerCode
    FoundByItsCode
    ConversionsAgree
