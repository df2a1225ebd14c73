# Currency exchange service: TLA+ models, checks and proofs

The service (`src/`) keeps currencies and exchange rates in PostgreSQL, serves
them over HTTP from in-memory caches, and is built on a small engine
(`engine/`): an asynchronous HTTP server on Boost.Beast, components,
PostgreSQL client and caches. This directory holds TLA+ modules that model the
parts of it that are hard to test, TLC configurations that check them on small
instances, and theorems that TLAPS proves for every size. Paths below are
relative to the repository.

    tlc -config MCPgCache.cfg PgCache.tla        # a run
    tlapm PgCacheProofs.tla                      # a proof

## The system

| Component | State | Operations | Hard part |
|---|---|---|---|
| `PgCache` (`engine/src/postgres/pg_cache.hpp`) | two updaters, each with a timer, `update_time_`, `last_update_time_` | initial query; timer, query, completion, rows posted to a strand, timer again | two chains of asynchronous steps over one cache, failures, answers applied late |
| Start of the caches (`server_builder.cpp`, `pg_cache.hpp`) | `is_init_`, `mtx_`, `cv_`, a thread pool | `InitPgCaches`, `WaitForInit`, `NotifyAboutInitCompletion`, `RunPgCachesUpdate` | threads blocked inside handlers; lost wakeups; termination on an error |
| `CurrenciesCache`, `ExchangeRatesCache` (`src/caches`) | maps by id, by code, by pair; the JSON of all rows | `FullUpdateCache`, `UpdateCache`, lookups | several maps replaced one after the other, unsynchronised with lookups |
| Handlers (`src/handlers`) | none of their own | `GET` from the caches, `POST` and `PATCH` to the database, then a `SELECT` | check then act over stale caches; two statements that are not one transaction |
| Database (`db/curr_exchange.sql`, `src/sql/sql.hpp`) | two tables with unique and foreign keys | insert, update, select | external; answers may be lost after a commit |
| HTTP session (`http_session.*`, `http_response.hpp`, `request_handler.hpp`) | the stream and what is pending on it | read, handle, write, close | replies sent by callbacks outside the strand; deadlines; pipelining; clients that leave |
| Filters, exceptions handler (`http_filter*.cpp`, `exceptions_handler.cpp`) | chain of filters per handler | `DoFilter`, `Next`, `Process` | one reply or a close, whatever throws |
| Listener, server, io_context (`listener.hpp`, `server.cpp`, `io_context.cpp`, `main.cpp`) | acceptor, signal set, threads | run, accept, stop, join | shutdown while handlers run; escaped exceptions |
| Components registry (`components.hpp`, `factory.hpp`) | map of components | `Get` makes a component and, recursively, what it needs | insertion while another component is being made |
| Form and URL coding, router (`url_coding.cpp`, `x_www_form_urlencoded.cpp`, `router.cpp`, `utils.cpp`) | none that lasts | `UrlEncode`, `UrlDecode`, the parsers of forms and pairs, `Find` | text that is decoded too early, twice, or not at all |
| Conversion arithmetic, DTOs (`src/calcs`, `src/dto`) | none | direct, reverse and dollar rates, amounts, replies | three routes to one number; rates stored with six decimals; division by zero |
| Configuration, enumerations, logger, command line | none | parsing and formatting | pure functions |

How they interact: a connection's session reads a request on its strand and
calls the handler. A `GET` handler looks rows up in the caches. A `POST` or
`PATCH` handler sends statements through `PgClient`, whose callbacks run on any
thread of the `io_context` and write the reply. The caches are refreshed by
their own queries, on the same threads, one strand for each cache. Handlers
never write to the caches: what a client stored is found by lookups after the
next refresh.

## Modules

`Table` is a versioned table: `history[t]` is its content after commit `t`, so
that a query's answer can be compared with every state the database ever had.

`SnapshotView` is the abstract specification of a cache. Readers see one
committed state of the table as a whole, and a refresh never goes back.

`PgCache` is the machinery of one cache. A continuation (`conts[u]`) is what is
pending for updater `u`: the timer's wait, the query, its completion, the rows
posted to the strand.

| Code | Action |
|---|---|
| `DoInitQuery`, `OnInitQueryCompletion` | the same names |
| `PgCache::AsyncRunUpdate` | `AsyncRunUpdate` with `SetLastUpdateTime` |
| `OnUpdateTimer`, `DoQuery` | `OnUpdateTimer` (the call is synchronous) |
| the database, `PgClient::Execute` | `QueryAnswered`, `QueryFailed` |
| `OnQueryCompletion` | `OnQueryCompletion` |
| `PgCacheUpdater::UpdateCache` on the strand | `UpdateCache` |

`CachesInit` is the start of all caches, one action for each step of a thread
that another thread can see: the check without the mutex, the lock, the test,
the sleep, and on the other side set, unlock, notify. `Source` says which cache
reads which. A spurious wakeup is an action.

`RateDb` has the two tables and the statements of `sql.hpp`; `RateCaches` the
two caches as requests see them, with `FullUpdateCache` step by step;
`RateService` the handlers, one action for each lookup and each statement. A
handler is a sequence of these, and refreshes and other requests happen in
between. An exchange rate's value is the number of the statement that stored it,
which makes older and newer comparable. `RateCaches` takes two facts from
`PgCache`: one refresh of a cache runs at a time (`OneContinuation`), and the
refreshes are full ones (the incremental query always fails, see Findings).
While a map is move-assigned a lookup may find the old entry, the new one or
none (`FoundByCode` and the like): the move takes none of the locks the lookup
takes.

`UrlCoding` has the coding of forms and paths, byte by byte: `UrlEncode`,
`UrlDecode`, the parser of forms (`Parsed`), the pair of codes in a path
(`ParseCurrPair`), the equality of codes in the caches' maps (`SameCode`), and
what of a path comes through the router's second parsing unchanged
(`IsSegment`).

`Requests` uses it: one action for each kind of request, from its text to the
tables and from the tables to the reply. Requests come one after the other and
the caches are up to date; interleavings are `RateService`'s. `given` remembers
the number a rate was made from and `last` the request and its reply; `last.dto`
is what the reply has of a row and of numbers.

Numbers in `Requests`. A stored rate is an integer in units of the column's last
decimal, or `Null` for PostgreSQL's `NaN`; it may be negative, and so may amounts,
which are fractions. A `Decimal` (`cpp_dec_float_50`) is a fraction; no number is
the one with the denominator 0. `Cents` is `str(2, std::ios::fixed)`, which rounds
a tie to the even hundredth: `tests/test_api/test_get_exchange.py:26` has 0.62 for
the reverse of 1.6, which is 0.625. A quotient is not exact. The library multiplies
with an inverse that it finds by iteration and keeps some fifty digits, so that
`Quotients` is a set: every multiple of the last digit (one in `Precision`) that
is within one of it from the quotient. Next to a tie the last digit decides: for
the reverse of 1.6 the model has 0.62 and 0.63, the program one of the two. A
product keeps all its digits, as the program's does for amounts of up to some
thirty digits.

| Code | Definition |
|---|---|
| `ParseRequest` of the handlers and its exceptions | `Fits`, `CurrencyFits`, `RateFits`, `PairRefusal`, `Refusal` |
| the handlers | `PostCurrency`, `PostRate`, `PatchRate`, `GetCurrency`, `GetRate`, `GetExchange` |
| `calcs.cpp` | `CalcConvAmount`, `CalcReverseRate`, `CalcRateByUsdExchRates`; which is used: `RatesFor` |
| `dto.cpp` | `CurrencyDto`, `ExchangeRateDto`, `ConvertedAmountDto` |
| `Decimal`: `str`, products, quotients | `Cents`, `CalcConvAmount`, `Quotients` |
| `NUMERIC(8, 6)` | `Rounded`, `RateColumn`, `Storable` |
| texts that PostgreSQL refuses, answered by the error branch of `query_handler` | `NoUtf8`, `PartOfUtf8` in `PostCurrency` |

A text with a byte 0, or one that is no UTF-8, is a database error and stores
nothing. Of the bytes 128 to 255 the model knows only which never occur in UTF-8;
a text with the others may be refused or stored.

`HttpSession` is one connection with its client. A session lives as long as a
read, a write or a query's callback refers to it; `Alive` is that. The client
may send requests before replies come, half-close, vanish, or stay silent.

`Components` is the registry. `stack` is the constructors being run, each with
the names it has still to ask for: the C++ recursion of `Get`, one action for
each way `Get` goes and one for a constructor's return.

| Code | Action |
|---|---|
| `MakeComponents`, the callback of the factory's `ForEach` | `Visit`, `AllVisited` |
| `Components::Get`: found; made; not registered | `GetFound`; `GetMissing`; `GetUnregistered` |
| the constructor returns, `Add` | `Constructed` |
| a constructor or `Get` throws, caught in `Main::Run` | `Throws` |

What each component needs is any relation without a circle (`Rank`), the order
of visits and of questions is open. `made` counts constructions and `holds`
remembers who was given which instance; they exist for the properties.

`Server` is the life of the process: the main thread in `Run` and `Join`, the
threads of all io_contexts, the listener and the signal handler.

| Code | Action |
|---|---|
| `MakeListener`, `Listener::Run`, or an exception from them | `Listen`, `ListenThrows` |
| `IOContextBase::Run`, `ThreadPool::Run` | `StartThread`, `AllStarted` |
| `thread_cb`: loop, `run`, `catch` | `Loop`, `RunReturns`, `OutOfWork`, `WorkThrows` |
| any handler of a session or a cache | `TakeWork`, `WorkEnds` |
| `Listener::OnAccept`, `AsyncRunSession`, `DoAccept` | `TakeAccept`, `OnAcceptError`, `AsyncRunSession`, `DoAccept` |
| the signal handler, `ServerImpl::Stop`, `IOContextBase::Stop` | `TakeSignal`, `StopContext`, `StopReturns` |
| `Join` | `JoinAll` |

`OnAccept` takes two steps so that other threads run between the session and
the next accept. An io_context that nobody gives work to (`Idle`) runs dry and
stops by itself, as `PgCachesIOContext` would; the service registers only
`ServerIOContext`.

`Filters` has both halves of the filter chains: the loops that link contexts
from the last configured filter to the first (`MakeHandler`, `MakeContext`,
`ChainMade`), and a request that goes through them, with `stack` for the nested
`Process` calls. What a filter does is a choice: `NextFilter`, `HandleRequest`,
`Send`, `Throw`, or `Return` without any of these. A context is constant once
made, so requests do not influence each other and one at a time is modelled.

The `*Proofs` modules hold theorems only. `MC*` modules give TLC its constants.
Operators marked `Mutant:` in a module are wrong versions of the definition
after them; nothing uses them. Each shows what one property is there to catch.

## Runs

| Run | Checks | Bounds |
|---|---|---|
| `MCPgCache` | `TypeOK`, `OneContinuation`, refinement of `SnapshotView`, `EventuallyFresh` | 2 rows, 4 commits |
| `MCPgCacheBookmark` | violates `IncrementalQueryHasBookmark` | 1 row, 2 commits |
| `MCCachesInit` | `TypeOK`, `FilledAfterSource`, `NoLostWakeup`, `StartsFilled`, `StartEnds` | 4 caches |
| `MCRateService` | `TypeOK`, `CachesBehindDb`, `NoForeignKeyError`, `WriteRepliesAreCurrent`, `RatesUsedAreFresh` | 2 clients, 3 currencies, 2 pairs, 2 stored rates; 4.5 million states |
| `MCRateServiceLive` | `EventuallyListed` | 1 client, otherwise the same, with the requests that read |
| `MCRateServiceLookup` | violates `KnownCurrencyIsFound` | 1 client, 2 currencies, 1 pair |
| `MCHttpSession` | `TypeOK`, `OneOperation`, `RepliesInOrder`, `NothingAfterClose`, `Answered`, `SessionEnds` | 3 requests |
| `MCHttpSessionPost` | violates `RepliesInOrder` | 2 requests |
| `MCComponents` | `TypeOK`, `MadeOnce`, `HeldIsRegistered`, `NeedsComeFirst` | 4 components, 1 unknown name |
| `MCServer` | `TypeOK`, `OneAccept`, `SessionKnowsItsClient`, `RunsUntilSignal`, `SignalEndsIt`, `ClientsServed` | 4 threads on 3 io_contexts, 2 clients |
| `MCFilters` | `TypeOK`, `FiltersInOrder`, `AnsweredOnce`, `NoneForgotten` | 2 handlers, 3 filters each |
| `MCRequests` | `TypeOK`, `FieldsArrive`, `OneRowPerCode`, `FoundByItsCode`, `ConversionsAgree` | up to 3 currencies out of 12 codes that may be sent, 4 pairs, 11 texts for a rate, 5 for an amount; three decimals, quotients to a thousandth; 107,340 states |

What they show. `PgCache`: the cache always is one committed state, whatever
queries fail or are late, and every commit reaches it. `CachesInit`: the start
ends, with all caches filled in the order they read each other, or in
termination. `RateService`: caches are behind the database and never ahead,
writes find what they refer to, replies to writes are current, conversions use
no rate older than the service had when asked; every stored rate is listed in the
end, although a refresh may skip it and although its writer may have been told
of an error. `HttpSession`: one operation is
pending, replies are in order, requests are answered or the connection ends.
`Components`: one instance of each component, held by all that need it.
`Server`: one accept is outstanding whatever fails, sessions have their own
client's address, exceptions do not wear the server down, a signal at any moment
ends it. `Filters`: requests go through their handler's filters in order, are
answered once unless code behind the answer throws, and are not forgotten.
(`Process` answers every exception, also one that is thrown after the reply.)
`Requests`: what a client puts into a form arrives, except the byte 255, whose
escape is taken for none; no two rows share a code; a currency whose code is
letters and digits can be asked for by it, and a rate if both codes have three
bytes; if each stored rate is what its two currencies are worth, every reply says
what they are worth, rounded to the hundredth, by the direct rate, the reverse or
the dollar: within half a hundredth and what the last digit of a quotient comes
to, so that two routes differ by one hundredth at most, and only next to a tie (of
amounts below a two hundredth of `Precision`; a last digit counts for more in
larger ones).

What `Requests` shows of the limits of the code, on which docs and tests are
silent: a code with other bytes, or of one or two letters, is accepted and
stored, and its rates cannot be asked for by a path; a rate below half a unit of
the last decimal is stored as zero, and a conversion by its reverse has `null`
for a rate, as one by a `NaN` has; negative rates are stored; one of a hundred or
more is answered with a database error; "+" in a form is a plus and not a space,
so that `FieldsArrive` is about clients that escape a space as `UrlEncode` does.

Hazards that no property covers, because the code promises nothing there that
could be broken. A conversion that misses a cached rate during a refresh
(`exchange_rates_cache.cpp:34`) falls through to the next route: `RateService` has
it, and all three routes are legal. A reply cut off by the deadline
(`http_session.cpp:21`) ends the connection, with which `Answered` is content. A
reply that is sent twice because code behind it throws
(`exceptions_handler.cpp:9`) is what `AnsweredOnce` leaves out; no handler here
does so. Codes that cannot be asked for (`http_request.cpp:9`, `utils.cpp:9`) are
what `FoundByItsCode` leaves out.

Why the bounds are enough. `PgCache`: a cache that goes back needs an answer, a
commit, a newer answer applied, and the older one applied after it: two commits;
four leave room for a commit before and between, and two rows are needed to mix
two states. `CachesInit`: four caches give a chain of waits (a cache that waits
for one that waits) and two threads asleep for the same cache, the case that
tells `notify_all` from `notify_one`. `RateService`: one client's reply is
disturbed by one other client and by refreshes; a rate that goes back needs two
stored values; a conversion through the dollar needs three currencies and two
pairs. `HttpSession`: sessions share nothing, so one is enough; three
requests let two be pipelined behind the one being answered. `Components`: with
four, a component is needed by two others and needs one itself, and constructors
nest four deep; all acyclic dependences of the four occur. `Server`: two threads
on the server's io_context interleave `OnAccept` with the signal handler, one
more io_context has work of its own, one has none; two clients let one connect
while the other's address is in `endpoint_`. `Filters`: three filters tell an
order from its reverse and from a chain that skips its middle; two handlers
would share links if chains were not begun anew. `Requests`: three currencies
have direct, reverse and dollar routes between two of them; the forms have every
kind of byte the coding tells apart (plain, separators, the percent sign, 255),
escapes that are cut off or are none, and fields that are empty, missing,
repeated or too long by one; rates lie on both sides of each rounding and of the
column's limit, with three decimals for six (`Scale`), which keeps the numbers
small and the cases the same; there are a rate that is a tie itself (.375), one
whose reverse is a tie (1.6) and one whose reverse has no end (0.6), amounts with
a half, and negative and no numbers. `Precision` is a thousand for the program's
fifty digits, so that the last digit of a quotient reaches the hundredths, which
takes an amount of many digits in the program; the theorem is for every precision.

Fairness. `PgCache`: the threads of the io_context run handlers that are ready,
every query ends (`PgClient::Execute` gives it five seconds), and a full query
sent again and again is answered some time (strong fairness of
`QueryAnswered("full")`): with a database that never answers nothing can be
promised. `CachesInit`: the operating system runs every thread, and a mutex
that is released again and again is acquired in the end (strong fairness of the
two actions that lock); nothing is assumed of spurious wakeups. `HttpSession`:
deadlines pass, failed operations complete; nothing is assumed of the client or
of the database, not even that data already sent are ever read. `RateService`:
both refreshes keep running, which is `EventuallyFresh` of `PgCache`; and they
do not stay in step for ever, so that a rate is some time listed while the
currencies are not being moved (strong fairness of `Lists`: a move takes
microseconds of the seconds between refreshes). Clients promise nothing.
`Server`:
threads run and handlers end; an io_context calls its handlers in the order in
which they became due, so that other work cannot keep the accept's or the
signal's handler waiting for ever (strong fairness of `TakeAccept` and
`TakeSignal`); a client that stays in the backlog is accepted some time, though
any number of accepts may fail before (strong fairness of `AcceptSucceeds`).

## What is proved

`PgCacheProofs`, for every table and number of commits: `TypeCorrect`,
`ChainNeverForks` (`OneContinuation`), `Refinement` (`RefinesView`) and
`CacheIsSnapshot`. `OneContinuation` alone is not inductive: the invariant
`IInv` adds that chains are empty before the cache runs, that answers are of
the past, that no bookmark was ever set (`NoBookmark`: why an incremental
answer never exists), and `CacheNotAhead`: the cache is a state of the
database not newer than any answer the full updater holds. The last is what makes
`UpdateCache` a step of `SnapshotView!Refresh`.

`CachesInitProofs`, for every finite set of caches and every dependence between
them: `TypeCorrect`, `SourceFilledFirst`, `NoWakeupIsLost`, `ServesFilled`. The
invariant says who holds each mutex in terms of the program counters, that a
thread between its test and its sleep holds the mutex of a cache that is not
initialised, that each cache has been taken by at most one thread, and that a
thread returns only when every cache's completion has run to its end.

`HttpSessionProofs`, for every number of requests, if no handler sends two
replies (`"postCurrency" \notin Kinds`): `TypeCorrect`, `SingleOperation`,
`OrderedReplies`, `SilentAfterClose`. The invariant ties the number of replies
received to the one operation that is pending: all requests read are answered
while a read is pending, all but the last while a query or a write is.

`ComponentsProofs`, for every set of components: `TypeCorrect`, `OneOfEach`
(`MadeOnce`), `SharedByAll` (`HeldIsRegistered`), `NeedsAreHeld`
(`NeedsComeFirst`). The argument is that ranks fall along the nested
constructors, so that `Get` never begins a component that is already being made;
the invariant adds that a component is registered or on the stack exactly if it
was begun, and that each constructor on the stack is what the one below it
asked for and has not been given.

`ServerProofs`, for every number of threads, io_contexts and clients:
`TypeCorrect`, `AcceptsOne` (`OneAccept`), `SessionsKnowTheirClients`
(`SessionKnowsItsClient`), `EndsOnSignal` (`RunsUntilSignal`). `AcceptInv` says
that the accept is pending, due, or in the hands of one thread, and whose
address `endpoint_` holds in each case. `StopInv` says that ended threads belong
to stopped io_contexts, that the server's stops only for a signal, and that
while `Stop` has io_contexts left a thread is in it.

`RateServiceProofs`, for every set of currencies, pairs, clients and requests and
every number of stored rates: `TypeCorrect`, `CachesStayBehindDb`
(`CachesBehindDb`), `ForeignKeysHold` (`NoForeignKeyError`),
`WritersSeeTheirWrites` (`WriteRepliesAreCurrent`), `ReadersSeeFreshRates`
(`RatesUsedAreFresh`), and `MapsNeverGoBack`, an action property: no step loses a
currency or makes a rate older, in the tables or in the maps. `CachesBehindDb`
alone is not inductive, because a refresh holds rows that it queried earlier.
`CurrenciesOrder` and `RatesOrder` say, at each step of a refresh, that these rows
lie between what they will replace and the table; `HandlerKnows` says what a
handler has found out and done at each of its steps, and `StartBehind` that the
maps do not go back behind what they held when a request arrived.

`FiltersProofs`, for every set of handlers and chains of any length:
`TypeCorrect`, `RequestsFollowConfiguration` (`FiltersInOrder`),
`RequestsAnsweredOnce` (`AnsweredOnce`), `RequestsNotForgotten` (`NoneForgotten`).
The invariant has one half for each phase. `ChainsMade` and `ChainInMaking`: the
contexts linked so far spell the last filters of a handler, and what is left of
its filters is the rest. `OnItsWay`: the nested `Process` calls are those of the
places in the chain, one each, and only the innermost can have done nothing yet,
so that nobody has answered while it has not; each call above has passed the
request on, which is why a second answer needs a throw.

`RequestsProofs`, for all forms, bodies and texts of any size, every number of
currencies, every scale and precision and all rates and amounts: `TypeCorrect`,
`FormsComeThrough` (`FieldsArrive`), `CodesDifferInMoreThanCase`
(`OneRowPerCode`), `RowsAreFoundByTheirCodes` (`FoundByItsCode`),
`ConversionsSayTheWorth` (`ConversionsAgree`). `NumbersInv` adds that stored codes
are in upper case and that each stored rate is what its text was rounded to;
`TextsInv` that codes are not empty and have three bytes at most.
For `ConversionsSayTheWorth` a number is near a worth when they differ by no more
than a last digit, with denominators multiplied out. A stored rate is its worth
exactly (`StoredIsClose`), a quotient is near it, whichever of the numbers around
it the division gives (`QuotientIsClose`), the error grows with the amount and
rounding adds half a hundredth (`CentsBounds`, `ErrorsAddUp`); that the dollar's
two rates give the worth of the pair is `RateThroughUsd`. The others rest on theorems about the coding of
texts: `UrlDecodeOfUrlEncode`, and `FormArrives`, that a body is split where it
was joined and each piece decoded to what it was made from. These are proved by
induction over the length of texts. The library's induction theorems are about
operators; the proofs use well-foundedness instead, and a predicate is the set of
texts that have it (`SetInduction`, `SeqInduction`, `ConsInduction`). What
`UrlDecode`, `Split` and `FlattenSeq` compute is a function chosen by its
equations; that there is one is proved the same way, from the last place back
(`DecodedExists`, `SplitExists`, `FlattenedExists`).

No constant is assumed to be small. The assumptions are the modules' own
(`MaxCommitsAssumption`, `CachesAssumption`, `SourceAssumption`,
`KindsAssumption`, `MaxRequestsAssumption`, `RegisteredAssumption`,
`RankAssumption`: no circular needs, as `components.hpp:12` demands,
`ContextAssumption`, `ThreadsAssumption`: `threads_num` of the server is not
zero, `NoneAssumption`, `PairsAssumption`, `MaxWritesAssumption`,
`RequestsAssumption`, `USDAssumption`, `MaxFiltersAssumption`,
`LimitsAssumption`, `ValuesAssumption`, `TextsAssumption`: names, values, bodies
and what is asked for in a path are sequences of bytes; queries of `/exchange`
may be anything). What
`ConversionsAgree` says of rates that are what their currencies are worth is for
worths that are not zero (`ValuesAssumption`).

With this every invariant and every action property that a run checks is
proved. Not proved, only checked: the liveness properties (`EventuallyFresh`,
`StartEnds`, `EventuallyListed`, `Answered`, `SessionEnds`, `SignalEndsIt`,
`ClientsServed`): they rest on fairness, and so on ENABLED, which is beyond the
prover. The three violations are counterexamples of runs; nothing is to be proved
of them, and the condition of `HttpSessionProofs` leaves the third one out.

## Findings

1. `engine/src/postgres/pg_cache.hpp:133`: `SetLastUpdateTime` ignores its
   argument. Every incremental query is sent with the empty string as the
   timestamp of `sql.hpp:67` and `sql.hpp:83` and is rejected
   (`MCPgCacheBookmark`). The caches are refreshed by the full updater only.
   Repairing the assignment alone would break `RefinesView`: an incremental
   answer can be older than a full one already applied.
2. `src/caches/currencies_cache.cpp:33`: move assignment of the map races with
   lookups; a cached currency can be reported as unknown (`MCRateServiceLookup`).
3. `src/handlers/post_currencies.cpp:86`: no `return` after the error's reply. On
   a kept connection the second reply answers the next request, and the session
   then has two reads pending (`MCHttpSessionPost`).

## Not modelled

Durations. `pg_cache.cpp:15` stores the period of the full updater in the place
of the incremental one's, so that the first keeps its default whatever
`configs/config.yaml:48` says; no property of `PgCache` depends on a period.

Texts and numbers: the wording of replies; in them, of a currency more than its
code; which of the two numbers around a tie a division gives; amounts that have
more digits than a `Decimal` keeps of a product, or are beyond a double, which a
reply's numbers are. Queries have all three parameters and plain codes (a query is
decoded before it is parsed, as a path is), and targets are those that Boost.URL
can parse.

The rest of the configuration, the enumerations of methods, statuses and content
types, the logger and the command line: tables of constants and calls of
libraries, without state that anything reads back. The vendored router, except
for what `Find` gives it. `PgCacheFullUpdater`, which nothing uses. The
connection pool of ozo: a query is answered or fails. SQL beyond the statements'
effect on rows.

In `Server`: what the destructors do after `Run` has returned (a cache may
release the io_context from under its own timer, `pg_cache.hpp:138`; it depends
on the order of unordered maps), threads that cannot be created, an allocation
that fails inside `OnAccept`, and a second signal, which finds nobody waiting
for it. `Server` and `HttpSession` are not composed: work that a stop drops is
in both, a session whose operation never completes. In `Filters`: a filter that
calls `Next` twice or after it has returned; the service configures none.

After the first reply of finding 3 the real stream is used by two operations at
once, which Beast leaves undefined: the model keeps replies in order there and
goes no further. A race of a lookup with a move can also end the process; that
ends the behaviour and breaks no safety property.

## Plan

1. Done: `Table`, `SnapshotView`, `PgCache`, `CachesInit`, `RateDb`,
   `RateCaches`, `RateService`, `HttpSession`, `Components`, `Server`, `Filters`,
   `UrlCoding`, `Requests`; proofs of every invariant that a run checks.
2. Next, proofs: that `IsSegment` accepts what it should for codes with other
   bytes than letters and digits; steps of the refinement of `SnapshotView` by
   the caches of `RateService`.
3. With finding 1 repaired: `RateCaches` with both updaters, to show what else
   the repair needs.
