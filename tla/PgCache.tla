------------------------------ MODULE PgCache ------------------------------
(* One cache of a database table (engine/src/postgres/pg_cache.hpp): the     *)
(* initial query, then two PgCacheUpdater objects, the incremental "update"  *)
(* and the "full" one, each a chain of asynchronous steps                    *)
(*   timer -> DoQuery -> OnQueryCompletion -> UpdateCache on the strand ->   *)
(*   timer ...                                                               *)
(* whose handlers interleave with each other and with commits to the table.  *)
(*                                                                           *)
(* Abstractions.  Time is the number of commits: the clock the code reads    *)
(* and updated_at of a row are both that number.  The steps of UpdateCache   *)
(* and FullUpdateCache of the derived caches are one here (they run on one   *)
(* strand; RateService models them one by one).                              *)
EXTENDS Table, Integers

VARIABLES
    cache,          \* the derived cache's rows
    phase,          \* of the start: idle, querying, answered, errored,
                    \*   initialised, running, or the process terminated
    initAsOf,       \* the moment the initial query was answered
    initTime,       \* PgCache::last_update_time_
    conts,          \* conts[u]: the pending continuations of updater u
    updateTime,     \* PgCacheUpdater::update_time_
    lastUpdateTime  \* PgCacheUpdater::last_update_time_

vars == <<clock, history, cache, phase, initAsOf, initTime,
          conts, updateTime, lastUpdateTime>>

updaterVars == <<conts, updateTime, lastUpdateTime>>
initVars == <<phase, initAsOf, initTime>>

Updaters == {"update", "full"}

NoTime == -1                         \* the empty string
Times == {NoTime} \cup 0..MaxCommits

Phases == {"idle", "querying", "answered", "errored",
           "initialised", "running", "terminated"}

\* A continuation: the timer's wait, pending or cancelled; the query at the
\* database; its completion, not yet run; the rows posted to the strand.
\* An identical pair of continuations counts once; a chain that forks shows
\* two different ones first.
Stages == {"wait", "aborted", "query", "answered", "failed", "posted"}
Continuations == [stage : Stages, since : Times, asOf : 0..MaxCommits]

Cont(stage, since, asOf) == [stage |-> stage, since |-> since, asOf |-> asOf]
Wait == Cont("wait", NoTime, 0)
Aborted == Cont("aborted", NoTime, 0)
Failed == Cont("failed", NoTime, 0)

\* SetUpdateTimer: expires_after completes the waits of this timer with an
\* error, then a new wait is started.
SetUpdateTimer(pending) ==
    {IF c = Wait THEN Aborted ELSE c : c \in pending} \cup {Wait}

----------------------------------------------------------------------------
(* Queries.  The full query returns the table; the incremental one the rows  *)
(* with updated_at > since, and the database rejects it when since is not a  *)
(* timestamp.                                                                *)

Rejected(u, since) == u = "update" /\ since = NoTime

\* Mutant: a partial answer replaces the cache.
AppliedRowsOnly(u, since, asOf) ==
    [r \in {x \in Rows : history[asOf][x] > since} |-> history[asOf][r]]

\* The cache after the rows of an answer were put into it: a full answer
\* replaces its content, an incremental one overwrites the rows it names.
Applied(u, since, asOf) ==
    IF u = "full"
      THEN history[asOf]
      ELSE [r \in Rows |-> IF history[asOf][r] > since
                             THEN history[asOf][r] ELSE cache[r]]

----------------------------------------------------------------------------
Init ==
    /\ TableInit
    /\ cache = NoRows
    /\ phase = "idle"
    /\ initAsOf = 0
    /\ initTime = NoTime
    /\ conts = [u \in Updaters |-> {}]
    /\ updateTime = [u \in Updaters |-> NoTime]
    /\ lastUpdateTime = [u \in Updaters |-> NoTime]

Write(r) == DbWrite(r) /\ UNCHANGED <<cache, initVars, updaterVars>>

DoInitQuery ==
    /\ phase = "idle"
    /\ phase' = "querying"
    /\ initTime' = clock
    /\ UNCHANGED <<tableVars, cache, initAsOf, updaterVars>>

InitQueryAnswered ==
    /\ phase = "querying"
    /\ \/ phase' = "answered" /\ initAsOf' = clock
       \/ phase' = "errored" /\ UNCHANGED initAsOf
    /\ UNCHANGED <<tableVars, cache, initTime, updaterVars>>

\* An error throws out of a thread nobody catches in: the process ends.
OnInitQueryCompletion ==
    /\ \/ /\ phase = "errored"
          /\ phase' = "terminated"
          /\ UNCHANGED cache
       \/ /\ phase = "answered"
          /\ phase' = "initialised"
          /\ cache' = Applied("update", 0, initAsOf)
    /\ UNCHANGED <<tableVars, initAsOf, initTime, updaterVars>>

\* Mutant: what its caller intends, the start's moment becomes the bookmark.
SetLastUpdateTimeToArg(updateTimeArg) ==
    lastUpdateTime' = [lastUpdateTime EXCEPT !["update"] = updateTimeArg]

\* SetLastUpdateTime assigns the updater's own update_time_, not its argument.
SetLastUpdateTime(updateTimeArg) ==
    lastUpdateTime' = [lastUpdateTime EXCEPT !["update"] = updateTime["update"]]

AsyncRunUpdate ==
    /\ phase = "initialised"
    /\ phase' = "running"
    /\ SetLastUpdateTime(initTime)
    /\ conts' = [u \in Updaters |-> SetUpdateTimer(conts[u])]
    /\ UNCHANGED <<tableVars, cache, initAsOf, initTime, updateTime>>

\* The wait ended.  With an error the timer is armed again, and the query is
\* sent in either case.  DoQuery reads the clock and sends the bookmark.
OnUpdateTimer(u) ==
    \E c \in conts[u] :
      LET others == conts[u] \ {c}
          armed  == IF c.stage = "aborted" THEN SetUpdateTimer(others) ELSE others
      IN /\ c.stage \in {"wait", "aborted"}
         /\ updateTime' = [updateTime EXCEPT ![u] = clock]
         /\ conts' = [conts EXCEPT ![u] =
                        armed \cup {Cont("query", lastUpdateTime[u], 0)}]
         /\ UNCHANGED <<tableVars, cache, initVars, lastUpdateTime>>

QueryAnswered(u) ==
    \E c \in conts[u] :
      /\ c.stage = "query"
      /\ ~ Rejected(u, c.since)
      /\ conts' = [conts EXCEPT ![u] =
                     (@ \ {c}) \cup {Cont("answered", c.since, clock)}]
      /\ UNCHANGED <<tableVars, cache, initVars, updateTime, lastUpdateTime>>

\* Rejected, timed out, or no connection to send it over.
QueryFailed(u) ==
    \E c \in conts[u] :
      /\ c.stage = "query"
      /\ conts' = [conts EXCEPT ![u] = (@ \ {c}) \cup {Failed}]
      /\ UNCHANGED <<tableVars, cache, initVars, updateTime, lastUpdateTime>>

\* Mutant: the error branch does not return.
OnQueryCompletionNoReturn(u) ==
    \E c \in conts[u] :
      LET others == conts[u] \ {c}
          rows   == Cont("posted", c.since, c.asOf)
      IN /\ c.stage \in {"failed", "answered"}
         /\ conts' = [conts EXCEPT ![u] =
                        IF c.stage = "failed" THEN SetUpdateTimer(others) \cup {rows}
                                              ELSE others \cup {rows}]
         /\ UNCHANGED <<tableVars, cache, initVars, updateTime, lastUpdateTime>>

\* Mutant: the error branch does not arm the timer.
OnQueryCompletionNoRetry(u) ==
    \E c \in conts[u] :
      LET others == conts[u] \ {c}
      IN /\ c.stage \in {"failed", "answered"}
         /\ conts' = [conts EXCEPT ![u] =
                        IF c.stage = "failed" THEN others
                          ELSE others \cup {Cont("posted", c.since, c.asOf)}]
         /\ UNCHANGED <<tableVars, cache, initVars, updateTime, lastUpdateTime>>

OnQueryCompletion(u) ==
    \E c \in conts[u] :
      LET others == conts[u] \ {c}
      IN /\ \/ /\ c.stage = "failed"
               /\ conts' = [conts EXCEPT ![u] = SetUpdateTimer(others)]
            \/ /\ c.stage = "answered"
               /\ conts' = [conts EXCEPT ![u] =
                              others \cup {Cont("posted", c.since, c.asOf)}]
         /\ UNCHANGED <<tableVars, cache, initVars, updateTime, lastUpdateTime>>

UpdateCache(u) ==
    \E c \in conts[u] :
      /\ c.stage = "posted"
      /\ lastUpdateTime' = [lastUpdateTime EXCEPT ![u] = updateTime[u]]
      /\ cache' = Applied(u, c.since, c.asOf)
      /\ conts' = [conts EXCEPT ![u] = SetUpdateTimer(@ \ {c})]
      /\ UNCHANGED <<tableVars, initVars, updateTime>>

\* The process has ended; the model has nothing more to say.
Ended == phase = "terminated" /\ UNCHANGED vars

UpdaterStep(u) == OnUpdateTimer(u) \/ OnQueryCompletion(u) \/ UpdateCache(u)

Next ==
    \/ \E r \in Rows : Write(r)
    \/ DoInitQuery
    \/ InitQueryAnswered
    \/ OnInitQueryCompletion
    \/ AsyncRunUpdate
    \/ \E u \in Updaters : \/ UpdaterStep(u)
                           \/ QueryAnswered(u)
                           \/ QueryFailed(u)
    \/ Ended

\* Handlers run because the io_context's threads keep running them; a query
\* ends because it has a timeout of five seconds; and a full query that is
\* sent again and again is answered some time.
Fairness ==
    /\ WF_vars(DoInitQuery)
    /\ WF_vars(InitQueryAnswered)
    /\ WF_vars(OnInitQueryCompletion)
    /\ WF_vars(AsyncRunUpdate)
    /\ \A u \in Updaters : /\ WF_vars(UpdaterStep(u))
                           /\ WF_vars(QueryAnswered(u) \/ QueryFailed(u))
    /\ SF_vars(QueryAnswered("full"))

Spec == Init /\ [][Next]_vars
FairSpec == Spec /\ Fairness

----------------------------------------------------------------------------
\* Every variable has the values the code can give it.
TypeOK ==
    /\ TableTypeOK
    /\ cache \in Versions
    /\ phase \in Phases
    /\ initAsOf \in 0..clock
    /\ initTime \in Times
    /\ conts \in [Updaters -> SUBSET Continuations]
    /\ updateTime \in [Updaters -> Times]
    /\ lastUpdateTime \in [Updaters -> Times]

\* An updater's chain neither forks nor dies: while the cache is running each
\* updater has exactly one pending continuation, whatever its queries returned.
\* update_time_ and the timer are unprotected members, safe only because of it.
OneContinuation ==
    phase = "running" =>
      \A u \in Updaters : \E c \in conts[u] : conts[u] = {c}

\* The cache implements the view of the table its readers are promised.
View == INSTANCE SnapshotView WITH view <- cache
RefinesView == View!Spec

\* Every commit is in the cache in the end, however often queries fail on the
\* way: config.yaml's full_update_timeout bounds how long a missed row is missed.
EventuallyFresh ==
    \A t \in 1..MaxCommits :
      (clock >= t) ~> \/ phase = "terminated"
                      \/ clock >= t /\ AtLeast(cache, history[t])

\* sql.hpp:67 and sql.hpp:83 compare updated_at with $1::timestamptz: what the
\* incremental query is sent with must be a timestamp.
IncrementalQueryHasBookmark ==
    \A c \in conts["update"] : c.stage = "query" => c.since # NoTime
============================================================================
