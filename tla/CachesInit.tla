----------------------------- MODULE CachesInit -----------------------------
(* The start of the caches: MakeComponents, InitPgCaches and                 *)
(* RunPgCachesUpdate (engine/src/http_server/server_builder.cpp), with       *)
(* WaitForInit and NotifyAboutInitCompletion of pg_cache.hpp step by step.   *)
(*                                                                           *)
(* The main thread sends every cache's initial query, then starts as many    *)
(* threads as there are caches.  A thread takes the completion of a query,   *)
(* and where the cache is built from another one it sleeps, inside the       *)
(* handler, until that one is filled.  The queries themselves are external.  *)
EXTENDS Naturals, FiniteSets

CONSTANTS Caches,      \* the components that are PgCacheBase
          NoCache,
          Source       \* Source[c]: the cache whose rows c reads when it is
                       \*   filled, or NoCache

ASSUME CachesAssumption == IsFiniteSet(Caches) /\ NoCache \notin Caches
ASSUME SourceAssumption == Source \in [Caches -> Caches \cup {NoCache}]

VARIABLES
    main,       \* main thread: init, join, update, serving
    query,      \* query[c]: unsent, sent, answered, failed, or taken
    pc, job,    \* of a thread: where it is, and for which cache
    isInit,     \* isInit[c]: is_init_
    mutex,      \* mutex[c]: the thread that holds mtx_
    sleeping,   \* sleeping[c]: the threads in cv_.wait
    filled,     \* the caches whose UpdateCache has put the first rows in
    updating,   \* the caches whose AsyncRunUpdate has run
    terminated  \* the process is gone

threadVars == <<pc, job>>
initVars == <<isInit, mutex, sleeping, filled>>
vars == <<main, query, pc, job, isInit, mutex, sleeping, filled, updating,
          terminated>>

\* ThreadPool{caches_num}.
Threads == 1..Cardinality(Caches)
Free == 0

PCs == {"unborn", "run", "check", "lock", "test", "park", "asleep", "leave",
        "fill", "set", "unlock", "notify", "done"}

Init ==
    /\ main = "init"
    /\ query = [c \in Caches |-> "unsent"]
    /\ pc = [t \in Threads |-> "unborn"]
    /\ job = [t \in Threads |-> NoCache]
    /\ isInit = [c \in Caches |-> FALSE]
    /\ mutex = [c \in Caches |-> Free]
    /\ sleeping = [c \in Caches |-> {}]
    /\ filled = {}
    /\ updating = {}
    /\ terminated = FALSE

----------------------------------------------------------------------------
(* The main thread.                                                          *)

AsyncRunInit(c) ==
    /\ main = "init"
    /\ query[c] = "unsent"
    /\ query' = [query EXCEPT ![c] = "sent"]
    /\ UNCHANGED <<main, threadVars, initVars, updating, terminated>>

RunThreads ==
    /\ main = "init"
    /\ \A c \in Caches : query[c] # "unsent"
    /\ main' = "join"
    /\ pc' = [t \in Threads |-> "run"]
    /\ UNCHANGED <<query, job, initVars, updating, terminated>>

\* Mutant: the main thread does not wait for the pool.
JoinNone ==
    /\ main = "join"
    /\ main' = "update"
    /\ UNCHANGED <<query, threadVars, initVars, updating, terminated>>

JoinAll ==
    /\ main = "join"
    /\ \A t \in Threads : pc[t] = "done"
    /\ main' = "update"
    /\ UNCHANGED <<query, threadVars, initVars, updating, terminated>>

AsyncRunUpdate(c) ==
    /\ main = "update"
    /\ updating' = updating \cup {c}
    /\ c \notin updating
    /\ UNCHANGED <<main, query, threadVars, initVars, terminated>>

RunServer ==
    /\ main = "update"
    /\ updating = Caches
    /\ main' = "serving"
    /\ UNCHANGED <<query, threadVars, initVars, updating, terminated>>

----------------------------------------------------------------------------
(* The database: answers, or fails within the query's timeout.               *)

QueryEnds(c) ==
    /\ query[c] = "sent"
    /\ \E end \in {"answered", "failed"} : query' = [query EXCEPT ![c] = end]
    /\ UNCHANGED <<main, threadVars, initVars, updating, terminated>>

----------------------------------------------------------------------------
(* A thread of the pool.                                                     *)

Goto(t, label) == pc' = [pc EXCEPT ![t] = label]

\* OnInitQueryCompletion throws on an error and nothing catches it in the
\* thread: std::terminate.
OnInitQueryCompletion(t, c) ==
    /\ pc[t] = "run"
    /\ query[c] \in {"answered", "failed"}
    /\ query' = [query EXCEPT ![c] = "taken"]
    /\ job' = [job EXCEPT ![t] = c]
    /\ terminated' = (query[c] = "failed")
    /\ Goto(t, IF Source[c] = NoCache THEN "fill" ELSE "check")
    /\ UNCHANGED <<main, initVars, updating>>

\* Mutant: nothing waits.
CheckNothing(t) ==
    /\ pc[t] = "check"
    /\ Goto(t, "fill")
    /\ UNCHANGED <<main, query, job, initVars, updating, terminated>>

\* WaitForInit of the source: the check without the mutex.
CheckInit(t) ==
    /\ pc[t] = "check"
    /\ Goto(t, IF isInit[Source[job[t]]] THEN "fill" ELSE "lock")
    /\ UNCHANGED <<main, query, job, initVars, updating, terminated>>

LockForWait(t) ==
    /\ pc[t] = "lock"
    /\ mutex[Source[job[t]]] = Free
    /\ mutex' = [mutex EXCEPT ![Source[job[t]]] = t]
    /\ Goto(t, "test")
    /\ UNCHANGED <<main, query, job, isInit, sleeping, filled, updating,
                   terminated>>

\* The predicate of cv_.wait, evaluated under the mutex.
TestInit(t) ==
    /\ pc[t] = "test"
    /\ Goto(t, IF isInit[Source[job[t]]] THEN "leave" ELSE "park")
    /\ UNCHANGED <<main, query, job, initVars, updating, terminated>>

\* cv_.wait releases the mutex and starts to sleep in one step.
Park(t) ==
    /\ pc[t] = "park"
    /\ mutex' = [mutex EXCEPT ![Source[job[t]]] = Free]
    /\ sleeping' = [sleeping EXCEPT ![Source[job[t]]] = @ \cup {t}]
    /\ Goto(t, "asleep")
    /\ UNCHANGED <<main, query, job, isInit, filled, updating, terminated>>

\* A condition variable may wake a thread without a notification.
WakeSpuriously(t) ==
    /\ pc[t] = "asleep"
    /\ sleeping' = [sleeping EXCEPT ![Source[job[t]]] = @ \ {t}]
    /\ Goto(t, "lock")
    /\ UNCHANGED <<main, query, job, isInit, mutex, filled, updating,
                   terminated>>

LeaveWait(t) ==
    /\ pc[t] = "leave"
    /\ mutex' = [mutex EXCEPT ![Source[job[t]]] = Free]
    /\ Goto(t, "fill")
    /\ UNCHANGED <<main, query, job, isInit, sleeping, filled, updating,
                   terminated>>

\* Mutant: the rows are put into the other cache.
UpdateSource(t) ==
    /\ pc[t] = "fill"
    /\ filled' = filled \cup {Source[job[t]]}
    /\ Goto(t, "set")
    /\ UNCHANGED <<main, query, job, isInit, mutex, sleeping, updating,
                   terminated>>

UpdateCache(t) ==
    /\ pc[t] = "fill"
    /\ filled' = filled \cup {job[t]}
    /\ Goto(t, "set")
    /\ UNCHANGED <<main, query, job, isInit, mutex, sleeping, updating,
                   terminated>>

\* Mutant: the flag is set without the mutex, it is atomic after all.
SetInitUnlocked(t) ==
    /\ pc[t] = "set"
    /\ isInit' = [isInit EXCEPT ![job[t]] = TRUE]
    /\ Goto(t, "notify")
    /\ UNCHANGED <<main, query, job, mutex, sleeping, filled, updating, terminated>>

\* NotifyAboutInitCompletion: lock and set, unlock, notify.
SetInit(t) ==
    /\ pc[t] = "set"
    /\ mutex[job[t]] = Free
    /\ mutex' = [mutex EXCEPT ![job[t]] = t]
    /\ isInit' = [isInit EXCEPT ![job[t]] = TRUE]
    /\ Goto(t, "unlock")
    /\ UNCHANGED <<main, query, job, sleeping, filled, updating, terminated>>

UnlockInit(t) ==
    /\ pc[t] = "unlock"
    /\ mutex' = [mutex EXCEPT ![job[t]] = Free]
    /\ Goto(t, "notify")
    /\ UNCHANGED <<main, query, job, isInit, sleeping, filled, updating,
                   terminated>>

\* Mutant: notify_one.
NotifyOne(t) ==
    /\ pc[t] = "notify"
    /\ \E woken \in SUBSET sleeping[job[t]] :
         /\ Cardinality(woken) = IF sleeping[job[t]] = {} THEN 0 ELSE 1
         /\ pc' = [s \in Threads |-> IF s = t THEN "run"
                                     ELSE IF s \in woken THEN "lock" ELSE pc[s]]
         /\ sleeping' = [sleeping EXCEPT ![job[t]] = @ \ woken]
    /\ job' = [job EXCEPT ![t] = NoCache]
    /\ UNCHANGED <<main, query, isInit, mutex, filled, updating, terminated>>

NotifyAll(t) ==
    /\ pc[t] = "notify"
    /\ pc' = [s \in Threads |-> IF s = t THEN "run"
                                ELSE IF s \in sleeping[job[t]] THEN "lock"
                                ELSE pc[s]]
    /\ sleeping' = [sleeping EXCEPT ![job[t]] = {}]
    /\ job' = [job EXCEPT ![t] = NoCache]
    /\ UNCHANGED <<main, query, isInit, mutex, filled, updating, terminated>>

\* io_context::run returns when no query is outstanding and no handler runs.
ThreadReturns(t) ==
    /\ pc[t] = "run"
    /\ \A c \in Caches : query[c] = "taken"
    /\ \A s \in Threads : pc[s] \in {"run", "done"}
    /\ Goto(t, "done")
    /\ UNCHANGED <<main, query, job, initVars, updating, terminated>>

----------------------------------------------------------------------------
MainStep == \/ \E c \in Caches : AsyncRunInit(c) \/ AsyncRunUpdate(c)
            \/ RunThreads
            \/ JoinAll
            \/ RunServer

ThreadStep(t) ==
    \/ \E c \in Caches : OnInitQueryCompletion(t, c)
    \/ CheckInit(t)
    \/ LockForWait(t)
    \/ TestInit(t)
    \/ Park(t)
    \/ LeaveWait(t)
    \/ UpdateCache(t)
    \/ SetInit(t)
    \/ UnlockInit(t)
    \/ NotifyAll(t)
    \/ ThreadReturns(t)

Alive == /\ ~ terminated
         /\ \/ MainStep
            \/ \E c \in Caches : QueryEnds(c)
            \/ \E t \in Threads : ThreadStep(t) \/ WakeSpuriously(t)

\* The start is over: the server runs, or the process is gone.
Ended == (main = "serving" \/ terminated) /\ UNCHANGED vars

Next == Alive \/ Ended

\* The operating system runs every thread, a mutex that is released again and
\* again is acquired in the end, and a query has a timeout.
Fairness ==
    /\ WF_vars(~ terminated /\ MainStep)
    /\ \A c \in Caches : WF_vars(~ terminated /\ QueryEnds(c))
    /\ \A t \in Threads :
         /\ WF_vars(~ terminated /\ ThreadStep(t))
         /\ SF_vars(~ terminated /\ (LockForWait(t) \/ SetInit(t)))

Spec == Init /\ [][Next]_vars
FairSpec == Spec /\ Fairness

----------------------------------------------------------------------------
\* Every variable has the values the code can give it.
TypeOK ==
    /\ main \in {"init", "join", "update", "serving"}
    /\ query \in [Caches -> {"unsent", "sent", "answered", "failed", "taken"}]
    /\ pc \in [Threads -> PCs]
    /\ job \in [Threads -> Caches \cup {NoCache}]
    /\ isInit \in [Caches -> BOOLEAN]
    /\ mutex \in [Caches -> Threads \cup {Free}]
    /\ sleeping \in [Caches -> SUBSET Threads]
    /\ filled \in SUBSET Caches
    /\ updating \in SUBSET Caches
    /\ terminated \in BOOLEAN

\* The exchange rates are joined with the currencies while they are filled, so
\* ExchangeRatesCache::UpdateCache waits for the currencies' first fill.
FilledAfterSource ==
    \A c \in filled : Source[c] # NoCache => Source[c] \in filled

\* A thread that sleeps in WaitForInit although the cache is initialised is
\* about to be notified: the flag is set under the mutex of the sleepers' test.
NoLostWakeup ==
    \A c \in Caches : \A t \in sleeping[c] :
      isInit[c] => \E s \in Threads : job[s] = c /\ pc[s] \in {"unlock", "notify"}

\* The periodic updates start, and the server accepts, only over caches that
\* were all filled: JoinAll has waited for every handler.
StartsFilled ==
    main \in {"update", "serving"} =>
      filled = Caches /\ \A c \in Caches : isInit[c]

\* The start comes to an end, in service or in termination: as many threads as
\* caches are enough, though a waiting cache blocks the thread that fills it.
StartEnds == <>(main = "serving" \/ terminated)
============================================================================
