------------------------- MODULE RateServiceProofs -------------------------
(* What the caches and the replies promise, for every set of currencies,     *)
(* pairs and clients and every number of stored rates.                       *)
(*                                                                           *)
(* All of it rests on one order: what a reply shows was in a cache or in the *)
(* database, a cache holds what a query has seen, a query sees what is       *)
(* stored, and none of these goes back.  IInv states the order at every step *)
(* of the two refreshes (CurrenciesOrder, RatesOrder) and what a handler     *)
(* knows at each of its steps (HandlerKnows).                                *)
EXTENDS RateService, SequenceTheorems, TLAPS

\* The rows a refresh of the currencies holds lie between what it has still to
\* replace and the table.
CurrenciesOrder ==
    /\ currRefresh.rows \subseteq currencies
    /\ currRefresh.step \in {"rows", "moveById"} => byId \subseteq currRefresh.rows
    /\ currRefresh.step \in {"byIdMoved", "moveByCode", "byCodeMoved"} =>
         byId = currRefresh.rows
    /\ currRefresh.step = "byCodeMoved" => byCode = currRefresh.rows

\* The same for the rates; and the list being made has no rate that is newer
\* than the map's.
RatesOrder ==
    \A p \in Pairs :
      /\ rateRefresh.rows[p] <= rates[p] /\ rates[p] <= writes
      /\ rateRefresh.step \in {"rows", "moveByPair"} =>
           byPair[p] <= rateRefresh.rows[p]
      /\ rateRefresh.step = "list" => byPair[p] = rateRefresh.rows[p]
      /\ rateRefresh.listed[p] <= byPair[p]

RateWrites == {"postRate", "patchRate"}

\* What a handler has found out and done when it is at one of its steps.
HandlerKnows(cl) ==
    /\ pc[cl] \in {"direct", "reverse", "usd", "usdBase", "usdTarget", "load",
                   "insertCurrency"} => request[cl].op \notin RateWrites
    /\ pc[cl] = "findTarget" => request[cl].from \in currencies
    /\ pc[cl] \in {"insert", "update"} => References(Pair(cl))
    /\ pc[cl] \in {"insert", "update", "select"} => request[cl].op \in RateWrites
    /\ pc[cl] = "select" => 0 < written[cl] /\ written[cl] <= rates[Pair(cl)]

\* Caches do not go back behind what they held when a request arrived.
StartBehind(cl) == \A p \in Pairs : atStart[cl].rates[p] <= byPair[p]

\* The properties of replies, for one client.
ReplyIsCurrent(cl) ==
    /\ replies[cl] # <<"foreignKey">>
    /\ request[cl].op \in RateWrites /\ Done(cl, "ok") =>
         used[cl][1].rate >= written[cl] /\ written[cl] > 0

UsedIsFresh(cl) ==
    request[cl].op \in {"getRate", "getExchange"} =>
      \A i \in DOMAIN used[cl] :
        used[cl][i].rate >= RateOf(atStart[cl].rates, used[cl][i].pair)

ClientTypeOK ==
    /\ pc \in [Clients -> {"idle"} \cup Reading \cup Writing]
    /\ request \in [Clients -> Requests]
    /\ used \in [Clients -> Seq([pair : Codes \X Codes, rate : 1..MaxWrites])]
    /\ written \in [Clients -> 0..MaxWrites]
    /\ replies \in [Clients -> Seq(Statuses)]
    /\ atStart \in [Clients -> [codes : SUBSET Codes, rates : Rates]]

CacheInv == CachesBehindDb /\ CurrenciesOrder /\ RatesOrder

ClientInv(cl) == /\ HandlerKnows(cl) /\ StartBehind(cl)
                 /\ ReplyIsCurrent(cl) /\ UsedIsFresh(cl)

IInv == /\ DbTypeOK /\ CacheTypeOK /\ ClientTypeOK
        /\ CacheInv
        /\ \A cl \in Clients : ClientInv(cl)
----------------------------------------------------------------------------
(* What does not go back.                                                    *)

DbGrows == /\ currencies \subseteq currencies'
           /\ \A p \in Pairs : rates[p] <= rates'[p] /\ rates'[p] <= writes'

ByPairGrows == \A p \in Pairs : byPair[p] <= byPair'[p]

\* A stored rate is newer than all before.
LEMMA StoreGrows ==
  ASSUME DbTypeOK, RatesOrder, NEW p \in Pairs, Store(p)
  PROVE  /\ DbTypeOK' /\ DbGrows
         /\ rates'[p] = writes' /\ writes' > 0
<1>1. writes' \in 1..MaxWrites /\ writes' = writes + 1
  BY MaxWritesAssumption DEF DbTypeOK, Store
<1>2. rates' \in Rates
  BY <1>1 DEF DbTypeOK, Store, Rates
<1>3. ASSUME NEW q \in Pairs PROVE rates[q] <= rates'[q] /\ rates'[q] <= writes'
  BY <1>1 DEF DbTypeOK, Store, Rates, RatesOrder
<1> QED
  BY <1>1, <1>2, <1>3 DEF DbTypeOK, Store, DbGrows, Rates

LEMMA InsertCurrencyGrows ==
  ASSUME DbTypeOK, RatesOrder, NEW code \in Codes, InsertCurrency(code)
  PROVE  DbTypeOK' /\ DbGrows
BY DEF DbTypeOK, RatesOrder, InsertCurrency, DbGrows, Rates

LEMMA DbStays ==
  ASSUME DbTypeOK, RatesOrder, UNCHANGED dbVars
  PROVE  DbTypeOK' /\ DbGrows
BY DEF DbTypeOK, RatesOrder, dbVars, DbGrows, Rates

\* Statements leave the caches where they are, behind the tables.
LEMMA CachesStay ==
  ASSUME DbTypeOK, DbTypeOK', CacheTypeOK, CacheInv, DbGrows, UNCHANGED cacheVars
  PROVE  CacheTypeOK' /\ CacheInv' /\ ByPairGrows
<1> USE DEF cacheVars, currCacheVars, rateCacheVars
<1>1. CacheTypeOK'
  BY DEF CacheTypeOK
<1>2. ByPairGrows
  BY DEF CacheTypeOK, ByPairGrows, Rates
<1>3. CurrenciesOrder'
  BY DEF CacheInv, CurrenciesOrder, DbGrows
<1>4. RatesOrder' /\ \A p \in Pairs : (allRates[p] <= byPair[p] /\ byPair[p] <= rates[p])'
  <2> SUFFICES ASSUME NEW p \in Pairs
               PROVE  /\ (allRates[p] <= byPair[p] /\ byPair[p] <= rates[p])'
                      /\ (rateRefresh.rows[p] <= rates[p] /\ rates[p] <= writes)'
                      /\ (rateRefresh.step \in {"rows", "moveByPair"} =>
                            byPair[p] <= rateRefresh.rows[p])'
                      /\ (rateRefresh.step = "list" => byPair[p] = rateRefresh.rows[p])'
                      /\ (rateRefresh.listed[p] <= byPair[p])'
    BY DEF RatesOrder
  <2>1. /\ {rates[p], rates'[p], byPair[p], rateRefresh.rows[p]} \subseteq Nat
        /\ rates[p] <= rates'[p] /\ rates'[p] <= writes'
    BY DEF DbTypeOK, CacheTypeOK, DbGrows, Rates
  <2> QED
    BY <2>1 DEF CacheInv, RatesOrder, CachesBehindDb
<1> QED
  BY <1>1, <1>2, <1>3, <1>4 DEF CacheInv, CachesBehindDb, DbGrows
----------------------------------------------------------------------------
(* The refreshes.                                                            *)

LEMMA InitCaches == Init => DbTypeOK /\ CacheTypeOK /\ CacheInv
<1> SUFFICES ASSUME Init PROVE DbTypeOK /\ CacheTypeOK /\ CacheInv
  OBVIOUS
<1> USE DEF Init, DbInit, CacheInit
<1>1. {0, 1} \subseteq 0..MaxWrites /\ 0..writes \subseteq 0..MaxWrites
  BY MaxWritesAssumption
<1>2. DbTypeOK
  BY <1>1 DEF DbTypeOK, Rates
<1>3. NoRates \in Rates
  BY MaxWritesAssumption DEF NoRates, Rates
<1>4. CacheTypeOK
  BY <1>2, <1>3 DEF DbTypeOK, CacheTypeOK, IdleCurr, IdleRate
<1>5. CurrenciesOrder
  BY DEF CurrenciesOrder, IdleCurr
<1>6. ASSUME NEW p \in Pairs
      PROVE  rates[p] \in 0..writes /\ NoRates[p] = 0
  BY DEF NoRates
<1>7. RatesOrder
  BY <1>2, <1>6 DEF RatesOrder, IdleRate, DbTypeOK
<1>8. CachesBehindDb
  BY <1>2, <1>6 DEF CachesBehindDb, DbTypeOK
<1> QED
  BY <1>2, <1>4, <1>5, <1>7, <1>8 DEF CacheInv

LEMMA CurrenciesRefreshed ==
  ASSUME DbTypeOK, CacheTypeOK, CacheInv, RefreshCurrencies
  PROVE  CacheTypeOK' /\ CacheInv' /\ ByPairGrows /\ UNCHANGED dbVars
<1>1. UNCHANGED <<dbVars, rateCacheVars>>
  BY DEF RefreshCurrencies, QueryCurrencies, MoveById, MoveByCode,
         ExchangeCurrenciesJson, rateCacheVars
<1>2. RatesOrder' /\ ByPairGrows
      /\ \A p \in Pairs : (allRates[p] <= byPair[p] /\ byPair[p] <= rates[p])'
  BY <1>1 DEF dbVars, rateCacheVars, CacheInv, RatesOrder, CachesBehindDb,
              ByPairGrows, CacheTypeOK, Rates
<1> DEFINE Chain == allCurrencies \subseteq byCode /\ byCode \subseteq byId
                    /\ byId \subseteq currencies
<1> USE DEF dbVars, rateCacheVars, CacheTypeOK, DbTypeOK, CacheInv,
            CurrenciesOrder, CachesBehindDb
<1>3. CASE QueryCurrencies
  <2>1. CacheTypeOK' /\ CurrenciesOrder' /\ Chain'
    BY <1>3 DEF QueryCurrencies
  <2> QED
    BY <1>1, <1>2, <2>1
<1>4. CASE MoveById
  <2>1. CacheTypeOK' /\ CurrenciesOrder' /\ Chain'
    BY <1>4 DEF MoveById
  <2> QED
    BY <1>1, <1>2, <2>1
<1>5. CASE MoveByCode
  <2>1. CacheTypeOK' /\ CurrenciesOrder' /\ Chain'
    BY <1>5 DEF MoveByCode
  <2> QED
    BY <1>1, <1>2, <2>1
<1>6. CASE ExchangeCurrenciesJson
  <2>1. CacheTypeOK' /\ CurrenciesOrder' /\ Chain'
    BY <1>6 DEF ExchangeCurrenciesJson, IdleCurr
  <2> QED
    BY <1>1, <1>2, <2>1
<1> QED
  BY <1>3, <1>4, <1>5, <1>6 DEF RefreshCurrencies

LEMMA RatesRefreshed ==
  ASSUME DbTypeOK, CacheTypeOK, CacheInv, RefreshRates
  PROVE  CacheTypeOK' /\ CacheInv' /\ ByPairGrows /\ UNCHANGED dbVars
<1>1. UNCHANGED <<dbVars, currCacheVars>>
  BY DEF RefreshRates, QueryRates, MoveByPair, ListRate, ExchangeRatesJson,
         currCacheVars
<1>2. CurrenciesOrder' /\ allCurrencies' \subseteq byCode'
      /\ byCode' \subseteq byId' /\ byId' \subseteq currencies'
  BY <1>1 DEF dbVars, currCacheVars, CacheInv, CurrenciesOrder, CachesBehindDb
<1> DEFINE Order(p) == /\ byPair[p] <= byPair'[p]
                       /\ (allRates[p] <= byPair[p] /\ byPair[p] <= rates[p])'
                       /\ (rateRefresh.rows[p] <= rates[p] /\ rates[p] <= writes)'
                       /\ (rateRefresh.step \in {"rows", "moveByPair"} =>
                             byPair[p] <= rateRefresh.rows[p])'
                       /\ (rateRefresh.step = "list" =>
                             byPair[p] = rateRefresh.rows[p])'
                       /\ (rateRefresh.listed[p] <= byPair[p])'
<1>3. SUFFICES CacheTypeOK' /\ \A p \in Pairs : Order(p)
  BY <1>1, <1>2 DEF CacheInv, RatesOrder, CachesBehindDb, ByPairGrows
<1>4. \A p \in Pairs :
        /\ {rates[p], byPair[p], allRates[p], rateRefresh.rows[p],
            rateRefresh.listed[p], writes} \subseteq Nat
        /\ allRates[p] <= byPair[p] /\ byPair[p] <= rates[p]
        /\ rateRefresh.rows[p] <= rates[p] /\ rates[p] <= writes
        /\ rateRefresh.step \in {"rows", "moveByPair"} =>
             byPair[p] <= rateRefresh.rows[p]
        /\ rateRefresh.step = "list" => byPair[p] = rateRefresh.rows[p]
        /\ rateRefresh.listed[p] <= byPair[p]
  BY DEF DbTypeOK, CacheTypeOK, Rates, CacheInv, RatesOrder, CachesBehindDb
<1>5. NoRates \in Rates /\ \A p \in Pairs : NoRates[p] = 0
  BY MaxWritesAssumption DEF NoRates, Rates
<1>6. CASE QueryRates
  <2>1. CacheTypeOK'
    BY <1>1, <1>5, <1>6 DEF QueryRates, IdleRate, CacheTypeOK, DbTypeOK, dbVars,
                            currCacheVars
  <2>2. rateRefresh'.step = "rows" /\ rateRefresh'.rows = rates
        /\ rateRefresh'.listed = NoRates
    BY <1>6 DEF QueryRates, IdleRate
  <2> QED
    BY <1>1, <1>4, <1>5, <1>6, <2>1, <2>2 DEF QueryRates, dbVars
<1>7. CASE MoveByPair
  <2>1. CacheTypeOK'
    BY <1>1, <1>7 DEF MoveByPair, CacheTypeOK, currCacheVars, Rates
  <2>2. rateRefresh'.rows = rateRefresh.rows
        /\ rateRefresh'.listed = rateRefresh.listed
    BY <1>7 DEF MoveByPair, CacheTypeOK
  <2>3. \/ rateRefresh.step = "rows" /\ rateRefresh'.step = "moveByPair"
           /\ byPair' = byPair
        \/ rateRefresh.step = "moveByPair" /\ rateRefresh'.step = "list"
           /\ byPair' = rateRefresh.rows
    BY <1>7 DEF MoveByPair, CacheTypeOK
  <2> QED
    BY <1>1, <1>4, <1>7, <2>1, <2>2, <2>3 DEF MoveByPair, dbVars
<1>8. ASSUME NEW q \in Pairs, ListRate(q)
      PROVE  CacheTypeOK' /\ \A p \in Pairs : Order(p)
  <2>1. PICK n \in {0, rateRefresh.rows[q]} :
          rateRefresh' = [rateRefresh EXCEPT !.left = @ \ {q}, !.listed[q] = n]
    BY <1>8 DEF ListRate
  <2>2. n \in 0..MaxWrites
    BY <2>1, MaxWritesAssumption DEF CacheTypeOK, Rates
  <2>3. /\ rateRefresh'.step = "list" /\ rateRefresh.step = "list"
        /\ rateRefresh'.rows = rateRefresh.rows
        /\ rateRefresh'.left = rateRefresh.left \ {q}
        /\ rateRefresh'.listed = [rateRefresh.listed EXCEPT ![q] = n]
    BY <1>8, <2>1 DEF ListRate, CacheTypeOK
  <2>4. rateRefresh'.listed \in Rates
    BY <2>2, <2>3 DEF CacheTypeOK, Rates
  <2>5. CacheTypeOK'
    BY <1>1, <1>8, <2>1, <2>2 DEF ListRate, CacheTypeOK, currCacheVars, Rates
  <2>6. \A p \in Pairs : rateRefresh'.listed[p] \in {n, rateRefresh.listed[p]}
                        /\ (rateRefresh'.listed[p] = n => p = q \/ n = rateRefresh.listed[p])
    BY <2>3 DEF CacheTypeOK, Rates
  <2> QED
    BY <1>1, <1>4, <1>8, <2>1, <2>3, <2>5, <2>6 DEF ListRate, dbVars
<1>9. CASE ExchangeRatesJson
  <2>1. CacheTypeOK'
    BY <1>1, <1>5, <1>9 DEF ExchangeRatesJson, IdleRate, CacheTypeOK, currCacheVars
  <2>2. rateRefresh'.step = "idle" /\ rateRefresh'.rows = NoRates
        /\ rateRefresh'.listed = NoRates
    BY <1>9 DEF ExchangeRatesJson, IdleRate
  <2> QED
    BY <1>1, <1>4, <1>5, <1>9, <2>1, <2>2 DEF ExchangeRatesJson, dbVars
<1> QED
  BY <1>6, <1>7, <1>8, <1>9 DEF RefreshRates
----------------------------------------------------------------------------
(* What a search finds.                                                      *)

\* A currency found by its code is in the table, half moved maps or not.
LEMMA FoundByCodeKnown ==
  ASSUME CacheTypeOK, CacheInv, NEW code, TRUE \in FoundByCode(code)
  PROVE  code \in currencies
BY DEF CacheInv, CachesBehindDb, CurrenciesOrder, FoundByCode

\* A rate found is a stored one and not older than the map's, half moved or not.
LEMMA FoundByPairFresh ==
  ASSUME CacheTypeOK, CacheInv, NEW p, NEW rate \in FoundByPair(p), rate > 0
  PROVE  /\ rate \in 1..MaxWrites
         /\ p \in Codes \X Codes
         /\ RateOf(byPair, p) <= rate
<1>1. 0 \in Nat /\ rate # 0
  BY SMT
<1>2. p \in Pairs
  BY <1>1 DEF FoundByPair, RateOf
<1>3. \/ rate = byPair[p]
      \/ rate = rateRefresh.rows[p] /\ rateRefresh.step = "moveByPair"
  BY <1>1, <1>2 DEF FoundByPair, RateOf
<1>4. {byPair[p], rateRefresh.rows[p]} \subseteq 0..MaxWrites
  BY <1>2 DEF CacheTypeOK, Rates
<1>5. byPair[p] <= rate
  BY <1>2, <1>3, <1>4, MaxWritesAssumption DEF CacheInv, RatesOrder
<1> QED
  BY <1>2, <1>3, <1>4, <1>5, PairsAssumption, MaxWritesAssumption DEF RateOf
----------------------------------------------------------------------------
(* The handlers.                                                             *)

Same(cl) == /\ pc'[cl] = pc[cl] /\ request'[cl] = request[cl]
            /\ used'[cl] = used[cl] /\ written'[cl] = written[cl]
            /\ replies'[cl] = replies[cl] /\ atStart'[cl] = atStart[cl]

\* A client of which nothing changes keeps what it knows, whatever becomes of
\* the database and the caches.
LEMMA ClientUntouched ==
  ASSUME NEW cl \in Clients, ClientTypeOK, ClientInv(cl), Same(cl),
         DbTypeOK, DbTypeOK', DbGrows, CacheTypeOK, CacheTypeOK', ByPairGrows
  PROVE  ClientInv(cl)'
<1>1. request[cl] \in Requests /\ Pair(cl)' = Pair(cl)
  BY DEF ClientTypeOK, Same, Pair
<1>2. request[cl].op \in RateWrites => Pair(cl) \in Pairs
  BY <1>1, RequestsAssumption DEF RateWrites, Pair
<1>3. HandlerKnows(cl)'
  <2>1. ASSUME pc[cl] = "select"
        PROVE  0 < written[cl] /\ written[cl] <= rates'[Pair(cl)]
    <3>1. /\ Pair(cl) \in Pairs /\ 0 < written[cl] /\ written[cl] <= rates[Pair(cl)]
      BY <1>2, <2>1 DEF ClientInv, HandlerKnows
    <3>2. /\ {written[cl], rates[Pair(cl)], rates'[Pair(cl)]} \subseteq Nat
          /\ rates[Pair(cl)] <= rates'[Pair(cl)]
      BY <3>1 DEF ClientTypeOK, DbTypeOK, Rates, DbGrows
    <3> QED
      BY <3>1, <3>2
  <2>2. References(Pair(cl)) => References(Pair(cl))'
    BY <1>1 DEF References, DbGrows, Base, Target
  <2> QED
    BY <1>1, <2>1, <2>2 DEF ClientInv, HandlerKnows, Same, DbGrows
<1>4. StartBehind(cl)'
  <2> SUFFICES ASSUME NEW p \in Pairs PROVE atStart[cl].rates[p] <= byPair'[p]
    BY DEF StartBehind, Same
  <2>1. {atStart[cl].rates[p], byPair[p], byPair'[p]} \subseteq Nat
    BY DEF ClientTypeOK, CacheTypeOK, Rates
  <2> QED
    BY <2>1 DEF ClientInv, StartBehind, ByPairGrows
<1>5. ReplyIsCurrent(cl)' /\ UsedIsFresh(cl)'
  BY DEF ClientInv, ReplyIsCurrent, UsedIsFresh, Same, Done, RateOf
<1> QED
  BY <1>3, <1>4, <1>5 DEF ClientInv

LEMMA InitClients == Init => ClientTypeOK /\ \A cl \in Clients : ClientInv(cl)
<1> SUFFICES ASSUME Init PROVE ClientTypeOK /\ \A cl \in Clients : ClientInv(cl)
  OBVIOUS
<1>1. (CHOOSE r \in Requests : TRUE) \in Requests
  BY RequestsAssumption
<1>2. NoRates \in Rates /\ 0 \in 0..MaxWrites
  BY MaxWritesAssumption DEF NoRates, Rates
<1>3. ClientTypeOK
  BY <1>1, <1>2 DEF Init, ClientTypeOK
<1>4. ASSUME NEW cl \in Clients PROVE ClientInv(cl)
  <2>1. pc[cl] = "idle" /\ used[cl] = <<>> /\ replies[cl] = <<>>
        /\ atStart[cl].rates = NoRates
    BY DEF Init
  <2>2. HandlerKnows(cl)
    BY <2>1 DEF HandlerKnows
  <2>3. StartBehind(cl)
    BY <2>1, InitCaches DEF StartBehind, NoRates, CacheTypeOK, Rates
  <2>4. ReplyIsCurrent(cl) /\ UsedIsFresh(cl)
    BY <2>1 DEF ReplyIsCurrent, UsedIsFresh, Done
  <2> QED
    BY <2>2, <2>3, <2>4 DEF ClientInv
<1> QED
  BY <1>3, <1>4

Others(cl) == \A other \in Clients \ {cl} : Same(other)

\* The handler of one client is at a new step, with these replies sent.
Moved(cl, step, sent) ==
    /\ pc' \in [Clients -> {"idle"} \cup Reading \cup Writing]
    /\ replies' \in [Clients -> Seq(Statuses)]
    /\ pc'[cl] = step /\ replies'[cl] = sent
    /\ \A other \in Clients \ {cl} :
         pc'[other] = pc[other] /\ replies'[other] = replies[other]

LEMMA GotoMoves ==
  ASSUME ClientTypeOK, NEW cl \in Clients,
         NEW step \in {"idle"} \cup Reading \cup Writing, Goto(cl, step)
  PROVE  Moved(cl, step, replies[cl])
BY DEF ClientTypeOK, Goto, Moved

LEMMA ReplyMoves ==
  ASSUME ClientTypeOK, NEW cl \in Clients, NEW sent \in Seq(Statuses),
         Reply(cl, sent)
  PROVE  Moved(cl, "idle", sent)
BY DEF ClientTypeOK, Reply, Moved

LEMMA StatusReplies ==
  \A status \in Statuses : <<status>> \in Seq(Statuses)
                           /\ <<status, status>> \in Seq(Statuses)
OBVIOUS

\* What a step of a handler leaves behind.
StepKeeps(cl) == /\ DbTypeOK' /\ DbGrows /\ UNCHANGED cacheVars
                 /\ ClientTypeOK' /\ ClientInv(cl)' /\ Others(cl)

\* A request arrives: nothing is known yet.
LEMMA ReceiveKeeps ==
  ASSUME IInv, NEW cl \in Clients, Receive(cl)
  PROVE  StepKeeps(cl)
<1> USE DEF IInv
<1>1. DbTypeOK' /\ DbGrows
  BY DbStays DEF Receive, CacheInv
<1>2. PICK r \in Requests : /\ request' = [request EXCEPT ![cl] = r]
                            /\ pc' = [pc EXCEPT ![cl] = FirstStep(r.op)]
  BY DEF Receive
<1>3. FirstStep(r.op) \in {"insertCurrency", "load", "findBase"}
      /\ (FirstStep(r.op) \in {"insertCurrency", "load"} => r.op \notin RateWrites)
  BY DEF FirstStep, RateWrites
<1>4. ClientTypeOK' /\ Others(cl)
  <2>1. 0 \in 0..MaxWrites /\ FirstStep(r.op) \in {"idle"} \cup Reading \cup Writing
    BY <1>3, MaxWritesAssumption DEF Reading, Writing
  <2>2. byCode \in SUBSET Codes /\ byPair \in Rates
    BY DEF CacheTypeOK
  <2>3. <<>> \in Seq([pair : Codes \X Codes, rate : 1..MaxWrites])
        /\ <<>> \in Seq(Statuses)
    OBVIOUS
  <2>4. ClientTypeOK'
    BY <1>2, <2>1, <2>2, <2>3 DEF Receive, ClientTypeOK
  <2>5. Others(cl)
    BY <1>2 DEF Receive, ClientTypeOK, Others, Same
  <2> QED
    BY <2>4, <2>5
<1>5. /\ pc'[cl] = FirstStep(r.op) /\ request'[cl] = r /\ used'[cl] = <<>>
      /\ replies'[cl] = <<>> /\ atStart'[cl].rates = byPair
  BY <1>2 DEF Receive, ClientTypeOK
<1>6. HandlerKnows(cl)'
  BY <1>3, <1>5 DEF HandlerKnows
<1>7. StartBehind(cl)'
  BY <1>5 DEF StartBehind, Receive, cacheVars, rateCacheVars, CacheTypeOK, Rates
<1>8. ReplyIsCurrent(cl)' /\ UsedIsFresh(cl)'
  BY <1>3, <1>5 DEF ReplyIsCurrent, UsedIsFresh, Done
<1> QED
  BY <1>1, <1>4, <1>6, <1>7, <1>8 DEF StepKeeps, ClientInv, Receive

\* A search that ends at a step whose knowledge it has, or in a reply.
LEMMA SearchKeeps ==
  ASSUME IInv, NEW cl \in Clients, ReadOnly,
         NEW step, NEW sent, Moved(cl, step, sent),
         \/ sent = replies[cl] /\ step # "idle"
         \/ sent = <<"notFound">>
         \/ sent = <<"ok">> /\ request[cl].op \notin RateWrites,
         HandlerKnows(cl)',
         used' \in [Clients -> Seq([pair : Codes \X Codes, rate : 1..MaxWrites])],
         \A other \in Clients \ {cl} : used'[other] = used[other],
         UsedIsFresh(cl)'
  PROVE  StepKeeps(cl)
<1> USE DEF IInv
<1>1. DbTypeOK' /\ DbGrows
  BY DbStays DEF ReadOnly, CacheInv
<1>2. ClientTypeOK' /\ Others(cl)
  BY DEF ReadOnly, ClientTypeOK, Moved, Others, Same
<1>3. StartBehind(cl)'
  BY DEF ReadOnly, cacheVars, rateCacheVars, StartBehind, ClientInv
<1>4. ReplyIsCurrent(cl)'
  <2>1. pc'[cl] = step /\ replies'[cl] = sent /\ request' = request
    BY DEF Moved, ReadOnly
  <2>2. sent # <<"foreignKey">>
    BY DEF ClientInv, ReplyIsCurrent
  <2>3. ~ (request[cl].op \in RateWrites /\ step = "idle" /\ sent = <<"ok">>)
    OBVIOUS
  <2> QED
    BY <2>1, <2>2, <2>3 DEF ReplyIsCurrent, Done
<1> QED
  BY <1>1, <1>2, <1>3, <1>4 DEF StepKeeps, ClientInv, ReadOnly

\* What was read for the reply stays as fresh as it was,
UsedKept(cl) ==
    /\ used' \in [Clients -> Seq([pair : Codes \X Codes, rate : 1..MaxWrites])]
    /\ \A other \in Clients \ {cl} : used'[other] = used[other]
    /\ UsedIsFresh(cl)'

LEMMA NothingUsed ==
  ASSUME IInv, NEW cl \in Clients, ReadOnly, UNCHANGED used
  PROVE  UsedKept(cl)
BY DEF IInv, ClientTypeOK, ClientInv, ReadOnly, UsedKept, UsedIsFresh

\* and a rate that a search finds is at least as fresh as the map was when the
\* request arrived.
LEMMA RateUsed ==
  ASSUME IInv, NEW cl \in Clients, ReadOnly, NEW p, NEW rate \in FoundByPair(p),
         rate > 0,
         used' = [used EXCEPT ![cl] = Append(@, [pair |-> p, rate |-> rate])]
  PROVE  UsedKept(cl)
<1> DEFINE read == [pair |-> p, rate |-> rate]
           Reads == [pair : Codes \X Codes, rate : 1..MaxWrites]
<1>1. rate \in 1..MaxWrites /\ p \in Codes \X Codes /\ RateOf(byPair, p) <= rate
  BY FoundByPairFresh DEF IInv
<1>2. read \in Reads /\ used \in [Clients -> Seq(Reads)]
  BY <1>1 DEF IInv, ClientTypeOK
<1>3. Append(used[cl], read) \in Seq(Reads) /\ used'[cl] = Append(used[cl], read)
  <2> HIDE DEF Reads
  <2>1. used' = [used EXCEPT ![cl] = Append(@, read)]
    OBVIOUS
  <2> HIDE DEF read
  <2> QED
    BY <1>2, <2>1
<1>4. rate >= RateOf(atStart[cl].rates, p)
  <2>1. CASE p \in Pairs
    <3>1. atStart[cl].rates[p] <= byPair[p] /\ byPair[p] <= rate
      BY <1>1, <2>1 DEF IInv, ClientInv, StartBehind, RateOf
    <3>2. {atStart[cl].rates[p], byPair[p], rate} \subseteq Nat
      BY <1>1, <2>1 DEF IInv, ClientTypeOK, CacheTypeOK, Rates
    <3> QED
      BY <2>1, <3>1, <3>2 DEF RateOf
  <2>2. CASE p \notin Pairs
    BY <1>1, <2>2 DEF RateOf
  <2> QED
    BY <2>1, <2>2
<1>5. UsedIsFresh(cl)'
  <2>1. atStart' = atStart /\ request' = request
    BY DEF ReadOnly
  <2> SUFFICES ASSUME request[cl].op \in {"getRate", "getExchange"},
                      NEW i \in DOMAIN used'[cl]
               PROVE  used'[cl][i].rate >= RateOf(atStart[cl].rates, used'[cl][i].pair)
    BY <2>1 DEF UsedIsFresh, RateOf
  <2>2. used[cl] \in Seq(Reads)
    BY <1>2
  <2>3. CASE i = Len(used[cl]) + 1
    <3>1. used'[cl][i] = read
      BY <1>2, <1>3, <2>2, <2>3
    <3> QED
      BY <1>4, <3>1
  <2>4. CASE i # Len(used[cl]) + 1
    <3>1. i \in DOMAIN used[cl] /\ used'[cl][i] = used[cl][i]
      BY <1>2, <1>3, <2>2, <2>4
    <3> QED
      BY <3>1 DEF IInv, ClientInv, UsedIsFresh
  <2> QED
    BY <2>3, <2>4
<1> QED
  BY <1>2, <1>3, <1>5 DEF UsedKept

LEMMA FindBaseKeeps ==
  ASSUME IInv, NEW cl \in Clients, FindBase(cl)
  PROVE  StepKeeps(cl)
<1>1. ReadOnly /\ UsedKept(cl) /\ pc[cl] = "findBase" /\ ClientTypeOK
  BY NothingUsed DEF FindBase, IInv
<1>2. request' = request /\ currencies' = currencies
  BY <1>1 DEF ReadOnly, dbVars
<1>3. PICK found \in FoundByCode(request[cl].from) :
        IF ~ found THEN Reply(cl, <<"notFound">>)
        ELSE IF request[cl].op = "getCurrency" THEN Reply(cl, <<"ok">>)
        ELSE Goto(cl, "findTarget")
  BY DEF FindBase
<1>4. CASE ~ found
  <2>1. Moved(cl, "idle", <<"notFound">>)
    BY <1>1, <1>3, <1>4, ReplyMoves, StatusReplies DEF Statuses
  <2>2. HandlerKnows(cl)'
    BY <2>1 DEF Moved, HandlerKnows
  <2> QED
    BY <1>1, <2>1, <2>2, SearchKeeps DEF UsedKept
<1>5. CASE found /\ request[cl].op = "getCurrency"
  <2>1. Moved(cl, "idle", <<"ok">>)
    BY <1>1, <1>3, <1>5, ReplyMoves, StatusReplies DEF Statuses
  <2>2. HandlerKnows(cl)'
    BY <2>1 DEF Moved, HandlerKnows
  <2> QED
    BY <1>1, <1>5, <2>1, <2>2, SearchKeeps DEF UsedKept, RateWrites
<1>6. CASE found /\ request[cl].op # "getCurrency"
  <2>1. Moved(cl, "findTarget", replies[cl])
    BY <1>1, <1>3, <1>6, GotoMoves DEF Reading
  <2>2. request[cl].from \in currencies
    BY <1>6, FoundByCodeKnown DEF IInv, FoundByCode
  <2>3. HandlerKnows(cl)'
    BY <1>2, <2>1, <2>2 DEF Moved, HandlerKnows
  <2> QED
    BY <1>1, <2>1, <2>3, SearchKeeps DEF UsedKept
<1> QED
  BY <1>4, <1>5, <1>6

LEMMA FindTargetKeeps ==
  ASSUME IInv, NEW cl \in Clients, FindTarget(cl)
  PROVE  StepKeeps(cl)
<1>1. ReadOnly /\ UsedKept(cl) /\ pc[cl] = "findTarget" /\ ClientTypeOK
  BY NothingUsed DEF FindTarget, IInv
<1>2. request' = request /\ currencies' = currencies
  BY <1>1 DEF ReadOnly, dbVars
<1>3. PICK found \in FoundByCode(request[cl].to) :
        IF found THEN Goto(cl, AfterTarget(request[cl].op))
                 ELSE Reply(cl, <<"notFound">>)
  BY DEF FindTarget
<1>4. CASE ~ found
  <2>1. Moved(cl, "idle", <<"notFound">>)
    BY <1>1, <1>3, <1>4, ReplyMoves, StatusReplies DEF Statuses
  <2>2. HandlerKnows(cl)'
    BY <2>1 DEF Moved, HandlerKnows
  <2> QED
    BY <1>1, <2>1, <2>2, SearchKeeps DEF UsedKept
<1>5. CASE found
  <2> DEFINE step == AfterTarget(request[cl].op)
  <2>1. /\ step \in {"insert", "update", "direct"}
        /\ step = "direct" => request[cl].op \notin RateWrites
        /\ step # "direct" => request[cl].op \in RateWrites
    BY DEF AfterTarget, RateWrites
  <2>2. Moved(cl, step, replies[cl])
    BY <1>1, <1>3, <1>5, <2>1, GotoMoves DEF Reading, Writing
  <2>3. request[cl].to \in currencies
    BY <1>5, FoundByCodeKnown DEF IInv, FoundByCode
  <2>4. request[cl].from \in currencies
    BY <1>1 DEF IInv, ClientInv, HandlerKnows
  <2>5. References(Pair(cl))'
    BY <1>2, <2>3, <2>4 DEF References, Pair, Base, Target
  <2>6. HandlerKnows(cl)'
    BY <1>2, <2>1, <2>2, <2>5 DEF Moved, HandlerKnows
  <2> QED
    BY <1>1, <2>1, <2>2, <2>6, SearchKeeps DEF UsedKept
<1> QED
  BY <1>4, <1>5

\* The searches of a request that only reads end in a reply or lead to another
\* search.
LEMMA ReaderReplies ==
  ASSUME IInv, NEW cl \in Clients, ReadOnly, UsedKept(cl),
         request[cl].op \notin RateWrites,
         NEW status \in {"ok", "notFound"}, Reply(cl, <<status>>)
  PROVE  StepKeeps(cl)
<1>1. Moved(cl, "idle", <<status>>)
  BY ReplyMoves, StatusReplies DEF IInv, Statuses
<1>2. HandlerKnows(cl)'
  BY <1>1 DEF Moved, HandlerKnows
<1> QED
  BY <1>1, <1>2, SearchKeeps DEF UsedKept

LEMMA ReaderGoes ==
  ASSUME IInv, NEW cl \in Clients, ReadOnly, UsedKept(cl),
         request[cl].op \notin RateWrites,
         NEW step \in {"reverse", "usd", "usdBase", "usdTarget"}, Goto(cl, step)
  PROVE  StepKeeps(cl)
<1>1. Moved(cl, step, replies[cl])
  BY GotoMoves DEF IInv, Reading
<1>2. HandlerKnows(cl)'
  BY <1>1 DEF ReadOnly, Moved, HandlerKnows
<1> QED
  BY <1>1, <1>2, SearchKeeps DEF UsedKept

LEMMA LookupKeeps ==
  ASSUME IInv, NEW cl \in Clients,
         \/ FindDirect(cl) \/ FindReverse(cl)
         \/ FindUsdBase(cl) \/ FindUsdTarget(cl)
  PROVE  StepKeeps(cl)
<1>1. ReadOnly /\ request[cl].op \notin RateWrites
  BY DEF FindDirect, FindReverse, FindUsdBase, FindUsdTarget,
         IInv, ClientInv, HandlerKnows
<1> DEFINE Replies == Reply(cl, <<"ok">>) \/ Reply(cl, <<"notFound">>)
           Goes == \E step \in {"reverse", "usd", "usdBase", "usdTarget"} :
                     Goto(cl, step)
<1>2. Replies \/ Goes
  BY DEF FindDirect, FindReverse, FindUsdBase, FindUsdTarget, FindRate
<1>3. UsedKept(cl)
  <2>1. \/ UNCHANGED used
        \/ \E p \in {Pair(cl), <<request[cl].to, request[cl].from>>,
                     <<USD, request[cl].from>>, <<USD, request[cl].to>>} :
             \E rate \in FoundByPair(p) :
               /\ rate > 0
               /\ used' = [used EXCEPT ![cl] =
                             Append(@, [pair |-> p, rate |-> rate])]
    BY DEF FindDirect, FindReverse, FindUsdBase, FindUsdTarget, FindRate
  <2> QED
    BY <1>1, <2>1, NothingUsed, RateUsed
<1> QED
  BY <1>1, <1>2, <1>3, ReaderReplies, ReaderGoes

LEMMA FindUsdKeeps ==
  ASSUME IInv, NEW cl \in Clients, FindUsd(cl)
  PROVE  StepKeeps(cl)
<1>1. ReadOnly /\ UsedKept(cl) /\ request[cl].op \notin RateWrites
  BY NothingUsed DEF FindUsd, IInv, ClientInv, HandlerKnows
<1>2. Goto(cl, "usdBase") \/ Reply(cl, <<"notFound">>)
  BY DEF FindUsd
<1> QED
  BY <1>1, <1>2, ReaderReplies, ReaderGoes

LEMMA LoadJsonKeeps ==
  ASSUME IInv, NEW cl \in Clients, LoadJson(cl)
  PROVE  StepKeeps(cl)
<1>1. ReadOnly /\ UsedKept(cl) /\ request[cl].op \notin RateWrites
  BY NothingUsed DEF LoadJson, IInv, ClientInv, HandlerKnows
<1> QED
  BY <1>1, ReaderReplies DEF LoadJson
----------------------------------------------------------------------------
(* The statements.                                                           *)

\* A statement keeps the caches, and what the request had when it arrived.
LEMMA StatementKeeps ==
  ASSUME IInv, NEW cl \in Clients, Statement(cl), DbTypeOK', DbGrows,
         NEW step, NEW sent, Moved(cl, step, sent),
         written' \in [Clients -> 0..MaxWrites],
         used' \in [Clients -> Seq([pair : Codes \X Codes, rate : 1..MaxWrites])],
         \A other \in Clients \ {cl} :
           used'[other] = used[other] /\ written'[other] = written[other],
         HandlerKnows(cl)', ReplyIsCurrent(cl)', UsedIsFresh(cl)'
  PROVE  StepKeeps(cl)
<1>1. ClientTypeOK' /\ Others(cl)
  BY DEF IInv, Statement, ClientTypeOK, Moved, Others, Same
<1>2. StartBehind(cl)'
  BY DEF IInv, Statement, cacheVars, rateCacheVars, StartBehind, ClientInv
<1> QED
  BY <1>1, <1>2 DEF StepKeeps, ClientInv, Statement

LEMMA PostCurrencyKeeps ==
  ASSUME IInv, NEW cl \in Clients, PostCurrency(cl)
  PROVE  StepKeeps(cl)
<1> USE DEF IInv
<1>1. request[cl] \in Requests /\ request[cl].from \in Codes
  BY RequestsAssumption DEF ClientTypeOK
<1>2. DbTypeOK' /\ DbGrows
  BY <1>1, InsertCurrencyGrows, DbStays DEF PostCurrency, CacheInv
<1>3. PICK sent \in {<<"ok">>, <<"conflict">>, <<"dbError", "dbError">>} :
        Reply(cl, sent)
  BY DEF PostCurrency
<1>4. Moved(cl, "idle", sent)
  BY <1>3, ReplyMoves, StatusReplies DEF Statuses
<1>5. /\ Statement(cl) /\ UNCHANGED <<used, written, request, atStart>>
      /\ request[cl].op \notin RateWrites
  BY DEF PostCurrency, Statement, ClientInv, HandlerKnows
<1>6. HandlerKnows(cl)' /\ ReplyIsCurrent(cl)'
  BY <1>3, <1>4, <1>5 DEF Moved, HandlerKnows, ReplyIsCurrent
<1>7. UsedIsFresh(cl)'
  BY <1>5 DEF ClientInv, UsedIsFresh, RateOf
<1> QED
  BY <1>2, <1>4, <1>5, <1>6, <1>7, StatementKeeps DEF ClientTypeOK

\* A rate is stored: the handler knows the rate to be at least as new as its own.
LEMMA StoredKeeps ==
  ASSUME IInv, NEW cl \in Clients, request[cl].op \in RateWrites,
         Store(Pair(cl)), written' = [written EXCEPT ![cl] = writes'],
         Goto(cl, "select") \/ Reply(cl, <<"dbError">>),
         Statement(cl), UNCHANGED used
  PROVE  StepKeeps(cl)
<1> USE DEF IInv
<1>1. Pair(cl) \in Pairs
  BY RequestsAssumption DEF ClientTypeOK, RateWrites, Pair
<1>2. DbTypeOK' /\ DbGrows /\ rates'[Pair(cl)] = writes' /\ writes' > 0
  BY <1>1, StoreGrows DEF CacheInv
<1>3. writes' \in 0..MaxWrites /\ written' \in [Clients -> 0..MaxWrites]
      /\ written'[cl] = writes' /\ request' = request
      /\ \A other \in Clients \ {cl} : written'[other] = written[other]
  BY <1>2 DEF ClientTypeOK, DbTypeOK, Statement
<1>4. used' \in [Clients -> Seq([pair : Codes \X Codes, rate : 1..MaxWrites])]
      /\ \A other \in Clients \ {cl} : used'[other] = used[other]
  BY DEF ClientTypeOK
<1>5. UsedIsFresh(cl)'
  BY <1>3 DEF RateWrites, UsedIsFresh
<1>6. CASE Goto(cl, "select")
  <2>1. Moved(cl, "select", replies[cl])
    BY <1>6, GotoMoves DEF Writing
  <2>2. written'[cl] <= rates'[Pair(cl)] /\ 0 < written'[cl] /\ Pair(cl)' = Pair(cl)
    BY <1>2, <1>3, MaxWritesAssumption DEF Pair
  <2>3. HandlerKnows(cl)'
    BY <1>3, <2>1, <2>2 DEF Moved, HandlerKnows
  <2>4. ReplyIsCurrent(cl)'
    BY <2>1 DEF Moved, ClientInv, ReplyIsCurrent, Done
  <2> QED
    BY <1>2, <1>3, <1>4, <1>5, <2>1, <2>3, <2>4, StatementKeeps
<1>7. CASE Reply(cl, <<"dbError">>)
  <2>1. Moved(cl, "idle", <<"dbError">>)
    BY <1>7, ReplyMoves, StatusReplies DEF Statuses
  <2>2. HandlerKnows(cl)' /\ ReplyIsCurrent(cl)'
    BY <2>1 DEF Moved, HandlerKnows, ReplyIsCurrent, Done
  <2> QED
    BY <1>2, <1>3, <1>4, <1>5, <2>1, <2>2, StatementKeeps
<1> QED
  BY <1>6, <1>7

LEMMA RefusedKeeps ==
  ASSUME IInv, NEW cl \in Clients, NEW error \in {"dbError", "conflict", "notFound"},
         Reply(cl, <<error>>), Statement(cl), UNCHANGED <<dbVars, written, used>>
  PROVE  StepKeeps(cl)
<1> USE DEF IInv
<1>1. DbTypeOK' /\ DbGrows
  BY DbStays DEF CacheInv
<1>2. Moved(cl, "idle", <<error>>)
  BY ReplyMoves, StatusReplies DEF Statuses
<1>3. HandlerKnows(cl)' /\ ReplyIsCurrent(cl)'
  BY <1>2 DEF Moved, HandlerKnows, ReplyIsCurrent, Done
<1>4. UsedIsFresh(cl)'
  BY DEF Statement, ClientInv, UsedIsFresh, RateOf
<1> QED
  BY <1>1, <1>2, <1>3, <1>4, StatementKeeps DEF ClientTypeOK

\* No foreign key is violated: the currencies were found, and none is deleted.
LEMMA PostRateKeeps ==
  ASSUME IInv, NEW cl \in Clients, PostRate(cl)
  PROVE  StepKeeps(cl)
<1>1. References(Pair(cl)) /\ request[cl].op \in RateWrites /\ Statement(cl)
      /\ UNCHANGED used
  BY DEF PostRate, IInv, ClientInv, HandlerKnows
<1>2. CASE InsertRate(Pair(cl)) /\ written' = [written EXCEPT ![cl] = writes']
           /\ (Goto(cl, "select") \/ Reply(cl, <<"dbError">>))
  BY <1>1, <1>2, StoredKeeps DEF InsertRate
<1>3. CASE (\E error \in InsertErrors(Pair(cl)) : Reply(cl, <<error>>))
           /\ UNCHANGED <<dbVars, written>>
  <2>1. PICK error \in InsertErrors(Pair(cl)) : Reply(cl, <<error>>)
    BY <1>3
  <2>2. error \in {"dbError", "conflict", "notFound"}
    BY <1>1, <2>1 DEF InsertErrors
  <2> QED
    BY <1>1, <1>3, <2>1, <2>2, RefusedKeeps
<1> QED
  BY <1>2, <1>3 DEF PostRate

LEMMA PatchRateKeeps ==
  ASSUME IInv, NEW cl \in Clients, PatchRate(cl)
  PROVE  StepKeeps(cl)
<1>1. request[cl].op \in RateWrites /\ Statement(cl) /\ UNCHANGED used
  BY DEF PatchRate, IInv, ClientInv, HandlerKnows
<1>2. CASE UpdateRate(Pair(cl)) /\ written' = [written EXCEPT ![cl] = writes']
           /\ (Goto(cl, "select") \/ Reply(cl, <<"dbError">>))
  BY <1>1, <1>2, StoredKeeps DEF UpdateRate
<1>3. CASE (Reply(cl, <<"notFound">>) \/ Reply(cl, <<"dbError">>))
           /\ UNCHANGED <<dbVars, written>>
  BY <1>1, <1>3, RefusedKeeps
<1> QED
  BY <1>2, <1>3 DEF PatchRate

\* The rate a reply shows is the table's, and its own or a newer one.
LEMMA SelectRateKeeps ==
  ASSUME IInv, NEW cl \in Clients, SelectRate(cl)
  PROVE  StepKeeps(cl)
<1>1. /\ request[cl].op \in RateWrites /\ Statement(cl)
      /\ UNCHANGED <<dbVars, written>>
      /\ 0 < written[cl] /\ written[cl] <= rates[Pair(cl)]
  BY DEF SelectRate, IInv, ClientInv, HandlerKnows
<1>2. CASE UNCHANGED used /\ Reply(cl, <<"dbError">>)
  BY <1>1, <1>2, RefusedKeeps
<1> DEFINE shown == [pair |-> Pair(cl), rate |-> rates[Pair(cl)]]
<1>3. CASE used' = [used EXCEPT ![cl] = <<shown>>] /\ Reply(cl, <<"ok">>)
  <2>1. Pair(cl) \in Pairs /\ Pair(cl) \in Codes \X Codes
    BY <1>1, RequestsAssumption, PairsAssumption
       DEF IInv, ClientTypeOK, RateWrites, Pair
  <2>2. rates[Pair(cl)] \in 1..MaxWrites /\ written[cl] \in 0..MaxWrites
    BY <1>1, <2>1, MaxWritesAssumption DEF IInv, ClientTypeOK, DbTypeOK, Rates
  <2>3. shown \in [pair : Codes \X Codes, rate : 1..MaxWrites]
        /\ shown.rate >= written[cl]
    BY <1>1, <2>1, <2>2
  <2>4. Moved(cl, "idle", <<"ok">>)
    BY <1>3, ReplyMoves, StatusReplies DEF IInv, Statuses
  <2> HIDE DEF shown
  <2>5. /\ used' \in [Clients -> Seq([pair : Codes \X Codes, rate : 1..MaxWrites])]
        /\ used'[cl] = <<shown>>
        /\ \A other \in Clients \ {cl} : used'[other] = used[other]
    <3> DEFINE Reads == [pair : Codes \X Codes, rate : 1..MaxWrites]
    <3>1. used \in [Clients -> Seq(Reads)] /\ shown \in Reads
      BY <2>3 DEF IInv, ClientTypeOK
    <3> HIDE DEF Reads
    <3>2. <<shown>> \in Seq(Reads)
      BY <3>1
    <3>3. used' \in [Clients -> Seq(Reads)]
      BY <1>3, <3>1, <3>2
    <3> QED
      BY <1>3, <3>1, <3>3 DEF Reads
  <2>6. HandlerKnows(cl)'
    BY <2>4 DEF Moved, HandlerKnows
  <2>7. ReplyIsCurrent(cl)'
    BY <1>1, <2>3, <2>4, <2>5 DEF Moved, ReplyIsCurrent, Done
  <2>8. UsedIsFresh(cl)'
    BY <1>1 DEF Statement, RateWrites, UsedIsFresh
  <2>9. DbTypeOK' /\ DbGrows
    BY <1>1, DbStays DEF IInv, CacheInv
  <2> QED
    BY <1>1, <2>4, <2>5, <2>6, <2>7, <2>8, <2>9, StatementKeeps
       DEF IInv, ClientTypeOK
<1> QED
  BY <1>2, <1>3 DEF SelectRate
----------------------------------------------------------------------------
(* All together.                                                             *)

LEMMA HandlerKeeps ==
  ASSUME IInv, NEW cl \in Clients, Receive(cl) \/ HandlerStep(cl)
  PROVE  StepKeeps(cl)
BY ReceiveKeeps, FindBaseKeeps, FindTargetKeeps, LookupKeeps, FindUsdKeeps,
   LoadJsonKeeps, PostCurrencyKeeps, PostRateKeeps, PatchRateKeeps,
   SelectRateKeeps DEF HandlerStep

\* What the tables and the maps do not lose again: a currency, and the rate of a
\* pair but to a newer one.  (A rate may leave the JSON: a refresh skips it while
\* the currencies' map lacks one of its currencies.)
NothingLost ==
    /\ currencies \subseteq currencies'
    /\ byId \subseteq byId' /\ byCode \subseteq byCode'
    /\ allCurrencies \subseteq allCurrencies'
    /\ \A p \in Pairs : rates[p] <= rates'[p] /\ byPair[p] <= byPair'[p]

LEMMA CurrenciesNotLost ==
  ASSUME CacheTypeOK, CacheInv, RefreshCurrencies
  PROVE  byId \subseteq byId' /\ byCode \subseteq byCode'
         /\ allCurrencies \subseteq allCurrencies'
BY DEF RefreshCurrencies, QueryCurrencies, MoveById, MoveByCode,
       ExchangeCurrenciesJson, CacheTypeOK, CacheInv, CurrenciesOrder,
       CachesBehindDb

LEMMA NextKeeps == IInv /\ [Next]_vars => IInv' /\ NothingLost
<1> SUFFICES ASSUME IInv, [Next]_vars PROVE IInv' /\ NothingLost
  OBVIOUS
<1> USE DEF IInv
<1>1. ASSUME UNCHANGED cacheVars
      PROVE  byId \subseteq byId' /\ byCode \subseteq byCode'
             /\ allCurrencies \subseteq allCurrencies'
  BY <1>1 DEF cacheVars, currCacheVars
<1>2. ASSUME NEW cl \in Clients, Receive(cl) \/ HandlerStep(cl)
      PROVE  IInv' /\ NothingLost
  <2>1. StepKeeps(cl)
    BY <1>2, HandlerKeeps
  <2>2. CacheTypeOK' /\ CacheInv' /\ ByPairGrows
    BY <2>1, CachesStay DEF StepKeeps
  <2>3. \A other \in Clients \ {cl} : ClientInv(other)'
    BY <2>1, <2>2, ClientUntouched DEF StepKeeps, Others
  <2> QED
    BY <1>1, <2>1, <2>2, <2>3 DEF StepKeeps, NothingLost, DbGrows, ByPairGrows
<1>3. ASSUME UNCHANGED clientVars, UNCHANGED dbVars, CacheTypeOK', CacheInv',
             ByPairGrows
      PROVE  IInv' /\ DbGrows
  <2>1. DbTypeOK' /\ DbGrows
    BY <1>3, DbStays DEF CacheInv
  <2>2. ClientTypeOK' /\ \A cl \in Clients : Same(cl)
    BY <1>3 DEF clientVars, ClientTypeOK, Same
  <2>3. \A cl \in Clients : ClientInv(cl)'
    BY <1>3, <2>1, <2>2, ClientUntouched
  <2> QED
    BY <1>3, <2>1, <2>2, <2>3
<1>4. CASE RefreshCurrencies /\ UNCHANGED clientVars
  <2>1. CacheTypeOK' /\ CacheInv' /\ ByPairGrows /\ UNCHANGED dbVars
    BY <1>4, CurrenciesRefreshed
  <2>2. byId \subseteq byId' /\ byCode \subseteq byCode'
        /\ allCurrencies \subseteq allCurrencies'
    BY <1>4, CurrenciesNotLost
  <2> QED
    BY <1>3, <1>4, <2>1, <2>2 DEF NothingLost, DbGrows, ByPairGrows
<1>5. CASE RefreshRates /\ UNCHANGED clientVars
  <2>1. CacheTypeOK' /\ CacheInv' /\ ByPairGrows /\ UNCHANGED dbVars
    BY <1>5, RatesRefreshed
  <2>2. UNCHANGED currCacheVars
    BY <1>5 DEF RefreshRates, QueryRates, MoveByPair, ListRate, ExchangeRatesJson
  <2> QED
    BY <1>3, <1>5, <2>1, <2>2
       DEF NothingLost, DbGrows, ByPairGrows, currCacheVars
<1>6. CASE UNCHANGED vars
  <2>1. UNCHANGED dbVars /\ UNCHANGED cacheVars /\ UNCHANGED clientVars
    BY <1>6 DEF vars
  <2>2. DbTypeOK' /\ DbGrows
    BY <2>1, DbStays DEF CacheInv
  <2>3. CacheTypeOK' /\ CacheInv' /\ ByPairGrows
    BY <2>1, <2>2, CachesStay
  <2> QED
    BY <1>1, <1>3, <2>1, <2>3 DEF NothingLost, DbGrows, ByPairGrows
<1> QED
  BY <1>2, <1>4, <1>5, <1>6 DEF Next, RefreshStep

\* IInv holds at every step of every behaviour, whatever the clients ask.
THEOREM Invariance == Spec => []IInv
<1>1. Init => IInv
  BY InitCaches, InitClients DEF IInv
<1>2. IInv /\ [Next]_vars => IInv'
  BY NextKeeps
<1> QED
  BY <1>1, <1>2, PTL DEF Spec

\* Every variable has the values the code can give it.
THEOREM TypeCorrect == Spec => []TypeOK
<1>1. IInv => TypeOK
  BY DEF IInv, ClientTypeOK, TypeOK
<1> QED
  BY <1>1, Invariance, PTL

\* What the JSON lists is in the maps, and what is in the maps is in the
\* database, at every step of both FullUpdateCache.
THEOREM CachesStayBehindDb == Spec => []CachesBehindDb
<1>1. IInv => CachesBehindDb
  BY DEF IInv, CacheInv
<1> QED
  BY <1>1, Invariance, PTL

\* POST /exchangerates inserts currency ids it read from a cache without ever
\* violating a foreign key.
THEOREM ForeignKeysHold == Spec => []NoForeignKeyError
<1>1. IInv => NoForeignKeyError
  BY DEF IInv, ClientInv, ReplyIsCurrent, NoForeignKeyError
<1> QED
  BY <1>1, Invariance, PTL

\* The reply to an accepted POST or PATCH shows the rate it stored or one that
\* was stored after it.
THEOREM WritersSeeTheirWrites == Spec => []WriteRepliesAreCurrent
<1>1. IInv => WriteRepliesAreCurrent
  BY DEF IInv, ClientInv, ReplyIsCurrent, WriteRepliesAreCurrent, RateWrites
<1> QED
  BY <1>1, Invariance, PTL

\* No rate or leg of a conversion is older than the one the map held when the
\* request arrived, also when the search meets a map that is half moved.
THEOREM ReadersSeeFreshRates == Spec => []RatesUsedAreFresh
<1>1. IInv => RatesUsedAreFresh
  BY DEF IInv, ClientInv, UsedIsFresh, RatesUsedAreFresh
<1> QED
  BY <1>1, Invariance, PTL

\* No step loses a currency or makes the rate of a pair older, in the tables or
\* in the maps that requests search: not the step of a refresh that replaces a
\* map by rows it queried earlier, either.
THEOREM MapsNeverGoBack == Spec => [][NothingLost]_vars
<1>1. IInv /\ [Next]_vars => [NothingLost]_vars
  BY NextKeeps
<1> QED
  BY <1>1, Invariance, PTL DEF Spec
============================================================================
