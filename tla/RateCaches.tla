----------------------------- MODULE RateCaches -----------------------------
(* CurrenciesCache and ExchangeRatesCache (src/caches): the maps and the     *)
(* prepared JSON that requests read, and FullUpdateCache of each, step by    *)
(* step, as the requests see it.  One refresh of a cache runs at a time:     *)
(* that is OneContinuation of PgCache, as is that only the full updater      *)
(* refreshes.                                                                *)
(*                                                                           *)
(* FullUpdateCache move-assigns maps that requests search at the same time.  *)
(* The search takes the map's own locks, the move does not, so what a search *)
(* finds meanwhile is undefined: the old entry, the new one or, over buckets *)
(* half moved, none.  (It may also end the process, which ends the           *)
(* behaviour and cannot break a safety property later.)                      *)
EXTENDS RateDb

VARIABLES
    byId, byCode,   \* currency_by_id_, currency_by_code_: the codes in them
    allCurrencies,  \* all_currencies_json_: the codes it lists
    byPair,         \* exchange_rate_by_curr_pair_
    allRates,       \* all_exchange_rates_: rate listed for a pair, 0 if none
    currRefresh,    \* the currencies' refresh: its step and the rows it holds
    rateRefresh     \* the rates' refresh: also the pairs still to be listed,
                    \*   and the list so far

currCacheVars == <<byId, byCode, allCurrencies, currRefresh>>
rateCacheVars == <<byPair, allRates, rateRefresh>>
cacheVars == <<currCacheVars, rateCacheVars>>

NoRates == [p \in Pairs |-> 0]

IdleCurr == [step |-> "idle", rows |-> {}]
IdleRate == [step |-> "idle", rows |-> NoRates, left |-> {}, listed |-> NoRates]

CacheTypeOK ==
    /\ byId \in SUBSET Codes
    /\ byCode \in SUBSET Codes
    /\ allCurrencies \in SUBSET Codes
    /\ byPair \in Rates
    /\ allRates \in Rates
    /\ currRefresh \in [step : {"idle", "rows", "moveById", "byIdMoved",
                                "moveByCode", "byCodeMoved"},
                        rows : SUBSET Codes]
    /\ rateRefresh \in [step : {"idle", "rows", "moveByPair", "list"},
                        rows : Rates, left : SUBSET Pairs, listed : Rates]

\* After InitPgCaches both caches hold the tables.
CacheInit ==
    /\ byId = currencies
    /\ byCode = currencies
    /\ allCurrencies = currencies
    /\ byPair = rates
    /\ allRates = rates
    /\ currRefresh = IdleCurr
    /\ rateRefresh = IdleRate

----------------------------------------------------------------------------
(* What a search can find.                                                   *)

\* GetCurrencyById
FoundById(code) ==
    {(code \in byId)} \cup
      (IF currRefresh.step = "moveById"
         THEN {(code \in currRefresh.rows), FALSE} ELSE {})

\* GetCurrencyByCode
FoundByCode(code) ==
    {(code \in byCode)} \cup
      (IF currRefresh.step = "moveByCode"
         THEN {(code \in currRefresh.rows), FALSE} ELSE {})

\* GetExchangeRateByCurrPair
FoundByPair(p) ==
    {RateOf(byPair, p)} \cup
      (IF rateRefresh.step = "moveByPair"
         THEN {RateOf(rateRefresh.rows, p), 0} ELSE {})

----------------------------------------------------------------------------
(* CurrenciesCache::FullUpdateCache.                                         *)

QueryCurrencies ==
    /\ currRefresh.step = "idle"
    /\ currRefresh' = [step |-> "rows", rows |-> currencies]
    /\ UNCHANGED <<dbVars, byId, byCode, allCurrencies, rateCacheVars>>

\* Mutant: the JSON is exchanged before the maps are.
MoveByIdAfterJson ==
    /\ \/ /\ currRefresh.step = "rows"
          /\ currRefresh' = [currRefresh EXCEPT !.step = "moveById"]
          /\ allCurrencies' = currRefresh.rows
          /\ UNCHANGED byId
       \/ /\ currRefresh.step = "moveById"
          /\ currRefresh' = [currRefresh EXCEPT !.step = "byIdMoved"]
          /\ byId' = currRefresh.rows
          /\ UNCHANGED allCurrencies
    /\ UNCHANGED <<dbVars, byCode, rateCacheVars>>

\* Mutant: the new map of currencies by id is forgotten.
MoveByIdForgotten ==
    /\ \/ /\ currRefresh.step = "rows"
          /\ currRefresh' = [currRefresh EXCEPT !.step = "moveById"]
       \/ /\ currRefresh.step = "moveById"
          /\ currRefresh' = [currRefresh EXCEPT !.step = "byIdMoved"]
    /\ UNCHANGED <<dbVars, byId, byCode, allCurrencies, rateCacheVars>>

MoveById ==
    /\ \/ /\ currRefresh.step = "rows"
          /\ currRefresh' = [currRefresh EXCEPT !.step = "moveById"]
          /\ UNCHANGED byId
       \/ /\ currRefresh.step = "moveById"
          /\ currRefresh' = [currRefresh EXCEPT !.step = "byIdMoved"]
          /\ byId' = currRefresh.rows
    /\ UNCHANGED <<dbVars, byCode, allCurrencies, rateCacheVars>>

MoveByCode ==
    /\ \/ /\ currRefresh.step = "byIdMoved"
          /\ currRefresh' = [currRefresh EXCEPT !.step = "moveByCode"]
          /\ UNCHANGED byCode
       \/ /\ currRefresh.step = "moveByCode"
          /\ currRefresh' = [currRefresh EXCEPT !.step = "byCodeMoved"]
          /\ byCode' = currRefresh.rows
    /\ UNCHANGED <<dbVars, byId, allCurrencies, rateCacheVars>>

ExchangeCurrenciesJson ==
    /\ currRefresh.step = "byCodeMoved"
    /\ allCurrencies' = currRefresh.rows
    /\ currRefresh' = IdleCurr
    /\ UNCHANGED <<dbVars, byId, byCode, rateCacheVars>>

(* ExchangeRatesCache::FullUpdateCache.                                      *)

QueryRates ==
    /\ rateRefresh.step = "idle"
    /\ rateRefresh' = [IdleRate EXCEPT !.step = "rows", !.rows = rates]
    /\ UNCHANGED <<dbVars, byPair, allRates, currCacheVars>>

MoveByPair ==
    /\ \/ /\ rateRefresh.step = "rows"
          /\ rateRefresh' = [rateRefresh EXCEPT !.step = "moveByPair"]
          /\ UNCHANGED byPair
       \/ /\ rateRefresh.step = "moveByPair"
          /\ rateRefresh' = [rateRefresh EXCEPT
                               !.step = "list",
                               !.left = {p \in Pairs : rateRefresh.rows[p] > 0}]
          /\ byPair' = rateRefresh.rows
    /\ UNCHANGED <<dbVars, allRates, currCacheVars>>

\* AllExchangeRatesToJson: a rate is listed with both its currencies, or, when
\* the currencies cache lacks one of them, skipped.
ListRate(p) ==
    /\ rateRefresh.step = "list"
    /\ p \in rateRefresh.left
    /\ \E baseFound \in FoundById(Base(p)), targetFound \in FoundById(Target(p)) :
         rateRefresh' = [rateRefresh EXCEPT
           !.left = @ \ {p},
           !.listed[p] = IF baseFound /\ targetFound
                           THEN rateRefresh.rows[p] ELSE 0]
    /\ UNCHANGED <<dbVars, byPair, allRates, currCacheVars>>

ExchangeRatesJson ==
    /\ rateRefresh.step = "list"
    /\ rateRefresh.left = {}
    /\ allRates' = rateRefresh.listed
    /\ rateRefresh' = IdleRate
    /\ UNCHANGED <<dbVars, byPair, currCacheVars>>

RefreshCurrencies == \/ QueryCurrencies
                     \/ MoveById
                     \/ MoveByCode
                     \/ ExchangeCurrenciesJson

RefreshRates == \/ QueryRates
                \/ MoveByPair
                \/ \E p \in Pairs : ListRate(p)
                \/ ExchangeRatesJson

RefreshStep == RefreshCurrencies \/ RefreshRates
=============================================================================
