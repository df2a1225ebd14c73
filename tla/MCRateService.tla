--------------------------- MODULE MCRateService ---------------------------
(* RateService for TLC. *)
EXTENDS RateService, TLC

CONSTANTS usd, eur, gbp

Req(op, from, to) == [op |-> op, from |-> from, to |-> to]

OnePair == {<<usd, eur>>}
UsdPairs == {<<usd, eur>>, <<usd, gbp>>}

\* A currency is created and looked up.
LookupRequests == {Req("getCurrency", eur, eur), Req("postCurrency", eur, eur)}

\* A currency and its first rate are created, and another rate is changed,
WriteRequests == {Req("postCurrency", eur, eur), Req("postRate", usd, eur),
                  Req("patchRate", usd, gbp)}

\* while conversions go through the dollar by these rates,
ExchangeRequests == WriteRequests \cup {Req("getExchange", eur, gbp)}

\* or while the rest is read.
ReadRequests == WriteRequests \cup {Req("getRate", usd, gbp), Req("getAll", eur, eur)}

ClientSymmetry == Permutations(Clients)
============================================================================
