---------------------------- MODULE RateService ----------------------------
(* The request handlers (src/handlers) over the database and the caches.     *)
(* A client has one request at a time.  Its handler runs as a sequence of    *)
(* searches in the caches and of database statements, between which          *)
(* everything else may happen: refreshes of the caches, other requests.      *)
(*                                                                           *)
(* What is left out: parsing (a malformed request is answered at once), the  *)
(* arithmetic of the conversion, and the transport of the reply.             *)
EXTENDS RateCaches, Sequences

CONSTANTS Clients,
          Requests,    \* the requests clients make: records [op, from, to]
          USD          \* the code the handler of /exchange converts through

Ops == {"getCurrency", "getRate", "getExchange", "getAll",
        "postCurrency", "postRate", "patchRate"}

ASSUME RequestsAssumption ==
    /\ Requests # {}
    /\ Requests \subseteq [op : Ops, from : Codes, to : Codes]
    /\ \A r \in Requests :
         r.op \in {"postRate", "patchRate"} => <<r.from, r.to>> \in Pairs
ASSUME USDAssumption == USD \in Codes

VARIABLES
    pc,        \* pc[cl]: the handler's next step, "idle" between requests
    request,   \* request[cl]: the current or last one
    used,      \* used[cl]: the exchange rates read for the reply, in order,
               \*   each with its pair
    written,   \* written[cl]: the rate this request stored, 0 when none
    replies,   \* replies[cl]: the replies sent to the request
    atStart    \* atStart[cl]: what the caches held when it arrived

clientVars == <<pc, request, used, written, replies, atStart>>
vars == <<dbVars, cacheVars, clientVars>>

Reading == {"findBase", "findTarget", "direct", "reverse", "usd", "usdBase",
            "usdTarget", "load"}
Writing == {"insertCurrency", "insert", "update", "select"}
Statuses == {"ok", "notFound", "conflict", "dbError", "foreignKey"}

FirstStep(op) == CASE op = "postCurrency" -> "insertCurrency"
                   [] op = "getAll" -> "load"
                   [] OTHER -> "findBase"

Pair(cl) == <<request[cl].from, request[cl].to>>

Init ==
    /\ DbInit
    /\ CacheInit
    /\ pc = [cl \in Clients |-> "idle"]
    /\ request \in [Clients -> {CHOOSE r \in Requests : TRUE}]
    /\ used = [cl \in Clients |-> <<>>]
    /\ written = [cl \in Clients |-> 0]
    /\ replies = [cl \in Clients |-> <<>>]
    /\ atStart = [cl \in Clients |-> [codes |-> {}, rates |-> NoRates]]

Receive(cl) ==
    /\ pc[cl] = "idle"
    /\ \E r \in Requests :
         /\ request' = [request EXCEPT ![cl] = r]
         /\ pc' = [pc EXCEPT ![cl] = FirstStep(r.op)]
    /\ used' = [used EXCEPT ![cl] = <<>>]
    /\ written' = [written EXCEPT ![cl] = 0]
    /\ replies' = [replies EXCEPT ![cl] = <<>>]
    /\ atStart' = [atStart EXCEPT ![cl] = [codes |-> byCode, rates |-> byPair]]
    /\ UNCHANGED <<dbVars, cacheVars>>

Goto(cl, step) == pc' = [pc EXCEPT ![cl] = step] /\ UNCHANGED replies

\* The handler sends its reply, or replies, and is done.
Reply(cl, statuses) == /\ replies' = [replies EXCEPT ![cl] = statuses]
                       /\ pc' = [pc EXCEPT ![cl] = "idle"]

----------------------------------------------------------------------------
(* Searches in the caches.                                                   *)

ReadOnly == UNCHANGED <<dbVars, cacheVars, request, written, atStart>>

FindBase(cl) ==
    /\ pc[cl] = "findBase"
    /\ \E found \in FoundByCode(request[cl].from) :
         IF ~ found THEN Reply(cl, <<"notFound">>)
         ELSE IF request[cl].op = "getCurrency" THEN Reply(cl, <<"ok">>)
         ELSE Goto(cl, "findTarget")
    /\ ReadOnly /\ UNCHANGED used

AfterTarget(op) == CASE op = "postRate" -> "insert"
                     [] op = "patchRate" -> "update"
                     [] OTHER -> "direct"

\* Mutant: the missing currency is not noticed.
FindTargetUnchecked(cl) ==
    /\ pc[cl] = "findTarget"
    /\ Goto(cl, AfterTarget(request[cl].op))
    /\ ReadOnly /\ UNCHANGED used

FindTarget(cl) ==
    /\ pc[cl] = "findTarget"
    /\ \E found \in FoundByCode(request[cl].to) :
         IF found THEN Goto(cl, AfterTarget(request[cl].op))
                  ELSE Reply(cl, <<"notFound">>)
    /\ ReadOnly /\ UNCHANGED used

\* Mutant: a rate that was not found is used.
FindRateUnchecked(cl, p, whenFound, otherwise) ==
    \E rate \in FoundByPair(p) :
      used' = [used EXCEPT ![cl] = Append(@, [pair |-> p, rate |-> rate])]
      /\ whenFound

\* FindExchangeRateByCurrencyPair, and where the handler goes from there.
FindRate(cl, p, whenFound, otherwise) ==
    \E rate \in FoundByPair(p) :
      IF rate > 0
        THEN used' = [used EXCEPT ![cl] = Append(@, [pair |-> p, rate |-> rate])]
             /\ whenFound
        ELSE UNCHANGED used /\ otherwise

FindDirect(cl) ==
    /\ pc[cl] = "direct"
    /\ FindRate(cl, Pair(cl), Reply(cl, <<"ok">>),
                IF request[cl].op = "getRate" THEN Reply(cl, <<"notFound">>)
                                              ELSE Goto(cl, "reverse"))
    /\ ReadOnly

FindReverse(cl) ==
    /\ pc[cl] = "reverse"
    /\ FindRate(cl, <<request[cl].to, request[cl].from>>,
                Reply(cl, <<"ok">>), Goto(cl, "usd"))
    /\ ReadOnly

\* FindUsdExchangeRates: USD itself, then the rates from it to either side.
FindUsd(cl) ==
    /\ pc[cl] = "usd"
    /\ \E found \in FoundByCode(USD) :
         IF found THEN Goto(cl, "usdBase") ELSE Reply(cl, <<"notFound">>)
    /\ ReadOnly /\ UNCHANGED used

FindUsdBase(cl) ==
    /\ pc[cl] = "usdBase"
    /\ FindRate(cl, <<USD, request[cl].from>>,
                Goto(cl, "usdTarget"), Reply(cl, <<"notFound">>))
    /\ ReadOnly

FindUsdTarget(cl) ==
    /\ pc[cl] = "usdTarget"
    /\ FindRate(cl, <<USD, request[cl].to>>,
                Reply(cl, <<"ok">>), Reply(cl, <<"notFound">>))
    /\ ReadOnly

\* GET /currencies and GET /exchangerates: the prepared JSON.
LoadJson(cl) ==
    /\ pc[cl] = "load"
    /\ Reply(cl, <<"ok">>)
    /\ ReadOnly /\ UNCHANGED used

----------------------------------------------------------------------------
(* Statements.  One may fail without an effect; and when its answer is late  *)
(* or lost the handler sees an error although the statement took effect.     *)

Statement(cl) == UNCHANGED <<cacheVars, request, atStart>>

\* The error branch of post_currencies.cpp:84-87 has no return: with no rows
\* in hand the handler goes on to send a second reply.
PostCurrency(cl) ==
    /\ pc[cl] = "insertCurrency"
    /\ \/ /\ InsertCurrency(request[cl].from)
          /\ \/ Reply(cl, <<"ok">>)
             \/ Reply(cl, <<"dbError", "dbError">>)
       \/ /\ request[cl].from \in currencies
          /\ Reply(cl, <<"conflict">>)
          /\ UNCHANGED dbVars
       \/ /\ Reply(cl, <<"dbError", "dbError">>)
          /\ UNCHANGED dbVars
    /\ Statement(cl) /\ UNCHANGED <<used, written>>

\* How the database may refuse to insert p.
InsertErrors(p) == {"dbError"}
                   \cup (IF rates[p] > 0 THEN {"conflict"} ELSE {})
                   \cup (IF References(p) THEN {} ELSE {"foreignKey"})

PostRate(cl) ==
    /\ pc[cl] = "insert"
    /\ \/ /\ InsertRate(Pair(cl))
          /\ written' = [written EXCEPT ![cl] = writes']
          /\ Goto(cl, "select") \/ Reply(cl, <<"dbError">>)
       \/ /\ \E error \in InsertErrors(Pair(cl)) : Reply(cl, <<error>>)
          /\ UNCHANGED <<dbVars, written>>
    /\ Statement(cl) /\ UNCHANGED used

\* Mutant: the new rate is put into the cache when the statement is done.
PatchRateWriteThrough(cl) ==
    /\ pc[cl] = "update"
    /\ \/ /\ UpdateRate(Pair(cl))
          /\ byPair' = [byPair EXCEPT ![Pair(cl)] = writes']
          /\ written' = [written EXCEPT ![cl] = writes']
          /\ Goto(cl, "select") \/ Reply(cl, <<"dbError">>)
       \/ /\ UNCHANGED <<dbVars, byPair, written>>
          /\ \/ rates[Pair(cl)] = 0 /\ Reply(cl, <<"notFound">>)
             \/ Reply(cl, <<"dbError">>)
    /\ UNCHANGED <<allRates, rateRefresh, currCacheVars, request, atStart, used>>

PatchRate(cl) ==
    /\ pc[cl] = "update"
    /\ \/ /\ UpdateRate(Pair(cl))
          /\ written' = [written EXCEPT ![cl] = writes']
          /\ Goto(cl, "select") \/ Reply(cl, <<"dbError">>)
       \/ /\ UNCHANGED <<dbVars, written>>
          /\ \/ rates[Pair(cl)] = 0 /\ Reply(cl, <<"notFound">>)
             \/ Reply(cl, <<"dbError">>)
    /\ Statement(cl) /\ UNCHANGED used

\* Mutant: the reply is made from the cache.
SelectRateFromCache(cl) ==
    /\ pc[cl] = "select"
    /\ used' = [used EXCEPT ![cl] = <<[pair |-> Pair(cl), rate |-> byPair[Pair(cl)]]>>]
    /\ Reply(cl, <<"ok">>)
    /\ Statement(cl) /\ UNCHANGED <<dbVars, written>>

\* kSelectExchangeRateWithCurrenciesById, for the reply to a POST or PATCH.
SelectRate(cl) ==
    /\ pc[cl] = "select"
    /\ \/ /\ used' = [used EXCEPT ![cl] = <<[pair |-> Pair(cl), rate |-> rates[Pair(cl)]]>>]
          /\ Reply(cl, <<"ok">>)
       \/ UNCHANGED used /\ Reply(cl, <<"dbError">>)
    /\ Statement(cl) /\ UNCHANGED <<dbVars, written>>

----------------------------------------------------------------------------
HandlerStep(cl) ==
    \/ FindBase(cl)
    \/ FindTarget(cl)
    \/ FindDirect(cl)
    \/ FindReverse(cl)
    \/ FindUsd(cl)
    \/ FindUsdBase(cl)
    \/ FindUsdTarget(cl)
    \/ LoadJson(cl)
    \/ PostCurrency(cl)
    \/ PostRate(cl)
    \/ PatchRate(cl)
    \/ SelectRate(cl)

Next == \/ RefreshStep /\ UNCHANGED clientVars
        \/ \E cl \in Clients : Receive(cl) \/ HandlerStep(cl)

Spec == Init /\ [][Next]_vars

\* Clients promise nothing.  Both refreshes keep running (EventuallyFresh of
\* PgCache), and the two do not stay in step for ever: now and then a rate is
\* listed while the currencies are not being moved.
Lists(p) == ListRate(p) /\ rateRefresh'.listed[p] > 0

FairSpec == /\ Spec
            /\ WF_vars(RefreshCurrencies /\ UNCHANGED clientVars)
            /\ WF_vars(RefreshRates /\ UNCHANGED clientVars)
            /\ \A p \in Pairs : SF_vars(Lists(p) /\ UNCHANGED clientVars)

----------------------------------------------------------------------------
\* Every variable has the values the code can give it.
TypeOK ==
    /\ DbTypeOK
    /\ CacheTypeOK
    /\ pc \in [Clients -> {"idle"} \cup Reading \cup Writing]
    /\ request \in [Clients -> Requests]
    /\ used \in [Clients -> Seq([pair : Codes \X Codes, rate : 1..MaxWrites])]
    /\ written \in [Clients -> 0..MaxWrites]
    /\ replies \in [Clients -> Seq(Statuses)]
    /\ atStart \in [Clients -> [codes : SUBSET Codes, rates : Rates]]

Done(cl, status) == pc[cl] = "idle" /\ replies[cl] = <<status>>

\* What the JSON lists is in the maps that requests search, and what is in the
\* maps is in the database: a reply can show too little or an old rate, never
\* a row that is not there, and a listed currency can be looked up.  (While rows
\* are inserted and updated, two maps and the JSON are replaced in turn, the
\* JSON last.)
CachesBehindDb ==
    /\ allCurrencies \subseteq byCode
    /\ byCode \subseteq byId /\ byId \subseteq currencies
    /\ \A p \in Pairs : allRates[p] <= byPair[p] /\ byPair[p] <= rates[p]

\* POST /exchangerates takes the currency ids from the cache and inserts them
\* later: they still satisfy the foreign keys.
NoForeignKeyError == \A cl \in Clients : replies[cl] # <<"foreignKey">>

\* The reply to an accepted POST or PATCH shows the rate it stored or one that
\* was stored after it, never an older one (the cache's, for instance).
WriteRepliesAreCurrent ==
    \A cl \in Clients :
      request[cl].op \in {"postRate", "patchRate"} /\ Done(cl, "ok") =>
        used[cl][1].rate >= written[cl] /\ written[cl] > 0

\* No rate or leg of a conversion is older than the one the service would have
\* used when the request arrived, however refreshes interleave with the search.
RatesUsedAreFresh ==
    \A cl \in Clients :
      request[cl].op \in {"getRate", "getExchange"} =>
        \A i \in DOMAIN used[cl] :
          used[cl][i].rate >= RateOf(atStart[cl].rates, used[cl][i].pair)

\* A committed rate is listed by GET /exchangerates in the end, also when its
\* request was answered with an error, and when a refresh skipped it because
\* the currencies cache lacked a currency or was just being replaced.
EventuallyListed ==
    \A p \in Pairs : \A n \in 1..MaxWrites :
      rates[p] = n ~> allRates[p] >= n

\* tests/test_api/test_get_currency.py:6 asserts 200 for a currency the service
\* knows: one that was cached when the request arrived.
KnownCurrencyIsFound ==
    \A cl \in Clients :
      request[cl].op = "getCurrency" /\ Done(cl, "notFound") =>
        request[cl].from \notin atStart[cl].codes
============================================================================
