-------------------------- MODULE CachesInitProofs --------------------------
(* The start of the caches is safe for any number of caches, whichever of    *)
(* them reads whichever other one.  (That it ends needs the reading to be    *)
(* free of cycles, and is left to the model checker.)                        *)
EXTENDS CachesInit, FiniteSetTheorems, TLAPS

InWait == {"check", "lock", "test", "park", "asleep", "leave"}
Working == InWait \cup {"fill", "set", "unlock", "notify"}

\* A thread inside a handler works for one cache, whose query it has taken; no
\* other thread does.
Jobs ==
    /\ \A t \in Threads : (pc[t] \in Working) <=> (job[t] \in Caches)
    /\ \A t \in Threads : job[t] \in Caches => query[job[t]] = "taken"
    /\ \A s, t \in Threads : job[s] \in Caches /\ job[s] = job[t] => s = t
    /\ \A t \in Threads : pc[t] \in InWait => Source[job[t]] \in Caches

\* A handler's progress and the flags agree.
Flags ==
    /\ \A c \in Caches : isInit[c] => c \in filled
    /\ \A t \in Threads : pc[t] \in {"set", "unlock", "notify"} => job[t] \in filled
    /\ \A t \in Threads : pc[t] \in {"unlock", "notify"} => isInit[job[t]]
    /\ \A t \in Threads : pc[t] = "leave" => isInit[Source[job[t]]]
    /\ \A t \in Threads : pc[t] = "fill" /\ Source[job[t]] # NoCache =>
                            isInit[Source[job[t]]]

\* Who holds a mutex, and what its holder can rely on.
Locks ==
    /\ \A t \in Threads : pc[t] \in {"test", "park", "leave"} =>
                            mutex[Source[job[t]]] = t
    /\ \A t \in Threads : pc[t] = "unlock" => mutex[job[t]] = t
    /\ \A t \in Threads : pc[t] = "park" => ~ isInit[Source[job[t]]]

Sleepers == \A c \in Caches : \A t \in sleeping[c] :
              pc[t] = "asleep" /\ Source[job[t]] = c

\* A thread leaves the pool only when every query was taken and handled.
Progress ==
    /\ \A c \in Caches : query[c] = "taken" =>
         isInit[c] \/ \E t \in Threads : job[t] = c
    /\ \A t \in Threads : pc[t] = "done" =>
         /\ \A c \in Caches : query[c] = "taken"
         /\ \A s \in Threads : pc[s] \in {"run", "done"}
    /\ main = "init" => \A t \in Threads : pc[t] = "unborn"
    /\ main \in {"update", "serving"} => \A t \in Threads : pc[t] = "done"

IInv == /\ TypeOK
        /\ Jobs
        /\ Flags
        /\ Locks
        /\ Sleepers
        /\ NoLostWakeup
        /\ Progress
        /\ FilledAfterSource
----------------------------------------------------------------------------
LEMMA FreeIsNoThread == Free \notin Threads
  BY DEF Free, Threads

\* A step of the main thread or of the database: threads and flags stay.
LEMMA QuietIInv ==
  ASSUME IInv, UNCHANGED threadVars, UNCHANGED initVars, TypeOK', Progress',
         \A c \in Caches : query[c] = "taken" => query'[c] = "taken"
  PROVE  IInv'
<1> USE DEF IInv, threadVars, initVars
<1>1. Jobs'
  BY DEF Jobs
<1>2. Flags' /\ Locks'
  BY DEF Flags, Locks
<1>3. Sleepers' /\ NoLostWakeup'
  BY DEF Sleepers, NoLostWakeup
<1>4. FilledAfterSource'
  BY DEF FilledAfterSource
<1> QED
  BY <1>1, <1>2, <1>3, <1>4

LEMMA MainAndQueriesIInv ==
  ASSUME IInv,
         \/ \E c \in Caches : AsyncRunInit(c) \/ AsyncRunUpdate(c) \/ QueryEnds(c)
         \/ JoinAll
         \/ RunServer
  PROVE  IInv'
<1> USE DEF IInv, threadVars, initVars
<1>1. CASE \E c \in Caches : AsyncRunInit(c)
  <2>1. TypeOK' /\ Progress'
    BY <1>1 DEF TypeOK, Progress, AsyncRunInit
  <2> QED
    BY <1>1, <2>1, QuietIInv DEF AsyncRunInit, TypeOK
<1>2. CASE \E c \in Caches : AsyncRunUpdate(c)
  <2>1. TypeOK' /\ Progress'
    BY <1>2 DEF TypeOK, Progress, AsyncRunUpdate
  <2> QED
    BY <1>2, <2>1, QuietIInv DEF AsyncRunUpdate
<1>3. CASE \E c \in Caches : QueryEnds(c)
  <2>1. TypeOK' /\ Progress'
    BY <1>3 DEF TypeOK, Progress, QueryEnds
  <2> QED
    BY <1>3, <2>1, QuietIInv DEF QueryEnds, TypeOK
<1>4. CASE JoinAll \/ RunServer
  <2>1. TypeOK' /\ Progress'
    BY <1>4 DEF TypeOK, Progress, JoinAll, RunServer
  <2> QED
    BY <1>4, <2>1, QuietIInv DEF JoinAll, RunServer
<1> QED
  BY <1>1, <1>2, <1>3, <1>4

LEMMA RunThreadsIInv ==
  ASSUME IInv, RunThreads
  PROVE  IInv'
<1> USE DEF IInv, RunThreads
<1>1. TypeOK'
  BY DEF TypeOK, PCs, initVars
<1>2. Jobs'
  BY DEF Jobs, InWait, Working, Progress
<1>3. Flags'
  BY DEF Flags, initVars
<1>4. Locks'
  BY DEF Locks
<1>5. Sleepers'
  BY DEF Sleepers, TypeOK, initVars, Progress
<1>6. NoLostWakeup'
  BY DEF NoLostWakeup, initVars, Progress
<1>7. Progress'
  BY DEF Progress, initVars
<1>8. FilledAfterSource'
  BY DEF FilledAfterSource, initVars
<1> QED
  BY <1>1, <1>2, <1>3, <1>4, <1>5, <1>6, <1>7, <1>8

(* One lemma per step of a thread, with one proof step per part of IInv.      *)

LEMMA OnInitQueryCompletionIInv ==
  ASSUME IInv, NEW t \in Threads, NEW c \in Caches, OnInitQueryCompletion(t, c)
  PROVE  IInv'
<1> USE DEF IInv, OnInitQueryCompletion, Goto
<1>1. TypeOK'
  BY DEF TypeOK, PCs, initVars
<1>2. Jobs'
  BY SourceAssumption DEF Jobs, TypeOK, InWait, Working
<1>3. Flags'
  BY DEF Flags, TypeOK, initVars
<1>4. Locks'
  BY DEF Locks, initVars
<1>5. Sleepers'
  BY DEF Sleepers, initVars
<1>6. NoLostWakeup'
  BY DEF NoLostWakeup, initVars
<1>7. Progress'
  BY DEF Progress, TypeOK, Jobs, InWait, Working, initVars
<1>8. FilledAfterSource'
  BY DEF FilledAfterSource, initVars
<1> QED
  BY <1>1, <1>2, <1>3, <1>4, <1>5, <1>6, <1>7, <1>8

LEMMA CheckInitIInv ==
  ASSUME IInv, NEW t \in Threads, CheckInit(t)
  PROVE  IInv'
<1> USE DEF IInv, CheckInit, Goto
<1>1. TypeOK'
  BY DEF TypeOK, PCs, initVars
<1>2. Jobs'
  BY DEF Jobs, InWait, Working
<1>3. Flags'
  BY DEF Flags, initVars
<1>4. Locks'
  BY DEF Locks, initVars
<1>5. Sleepers'
  BY DEF Sleepers, initVars
<1>6. NoLostWakeup'
  BY DEF NoLostWakeup, initVars
<1>7. Progress'
  BY DEF Progress, initVars
<1>8. FilledAfterSource'
  BY DEF FilledAfterSource, initVars
<1> QED
  BY <1>1, <1>2, <1>3, <1>4, <1>5, <1>6, <1>7, <1>8

LEMMA LockForWaitIInv ==
  ASSUME IInv, NEW t \in Threads, LockForWait(t)
  PROVE  IInv'
<1> USE DEF IInv, LockForWait, Goto
<1>1. TypeOK'
  BY DEF TypeOK, PCs
<1>2. Jobs'
  BY DEF Jobs, InWait, Working
<1>3. Flags'
  BY DEF Flags
<1>4. Locks'
  BY FreeIsNoThread DEF Locks, TypeOK, Jobs, InWait
<1>5. Sleepers'
  BY DEF Sleepers
<1>6. NoLostWakeup'
  BY DEF NoLostWakeup
<1>7. Progress'
  BY DEF Progress
<1>8. FilledAfterSource'
  BY DEF FilledAfterSource
<1> QED
  BY <1>1, <1>2, <1>3, <1>4, <1>5, <1>6, <1>7, <1>8

LEMMA TestInitIInv ==
  ASSUME IInv, NEW t \in Threads, TestInit(t)
  PROVE  IInv'
<1> USE DEF IInv, TestInit, Goto
<1>1. TypeOK'
  BY DEF TypeOK, PCs, initVars
<1>2. Jobs'
  BY DEF Jobs, InWait, Working
<1>3. Flags'
  BY DEF Flags, initVars
<1>4. Locks'
  BY DEF Locks, initVars
<1>5. Sleepers'
  BY DEF Sleepers, initVars
<1>6. NoLostWakeup'
  BY DEF NoLostWakeup, initVars
<1>7. Progress'
  BY DEF Progress, initVars
<1>8. FilledAfterSource'
  BY DEF FilledAfterSource, initVars
<1> QED
  BY <1>1, <1>2, <1>3, <1>4, <1>5, <1>6, <1>7, <1>8

LEMMA ParkIInv ==
  ASSUME IInv, NEW t \in Threads, Park(t)
  PROVE  IInv'
<1> USE DEF IInv, Park, Goto
<1>1. TypeOK'
  BY DEF TypeOK, PCs
<1>2. Jobs'
  BY DEF Jobs, InWait, Working
<1>3. Flags'
  BY DEF Flags
<1>4. Locks'
  BY DEF Locks, TypeOK
<1>5. Sleepers'
  BY DEF Sleepers, TypeOK
<1>6. NoLostWakeup'
  BY DEF NoLostWakeup, Locks
<1>7. Progress'
  BY DEF Progress
<1>8. FilledAfterSource'
  BY DEF FilledAfterSource
<1> QED
  BY <1>1, <1>2, <1>3, <1>4, <1>5, <1>6, <1>7, <1>8

LEMMA WakeSpuriouslyIInv ==
  ASSUME IInv, NEW t \in Threads, WakeSpuriously(t)
  PROVE  IInv'
<1> USE DEF IInv, WakeSpuriously, Goto
<1>1. TypeOK'
  BY DEF TypeOK, PCs
<1>2. Jobs'
  BY DEF Jobs, InWait, Working
<1>3. Flags'
  BY DEF Flags
<1>4. Locks'
  BY DEF Locks
<1>5. Sleepers'
  BY DEF Sleepers, TypeOK
<1>6. NoLostWakeup'
  BY DEF NoLostWakeup
<1>7. Progress'
  BY DEF Progress
<1>8. FilledAfterSource'
  BY DEF FilledAfterSource
<1> QED
  BY <1>1, <1>2, <1>3, <1>4, <1>5, <1>6, <1>7, <1>8

LEMMA LeaveWaitIInv ==
  ASSUME IInv, NEW t \in Threads, LeaveWait(t)
  PROVE  IInv'
<1> USE DEF IInv, LeaveWait, Goto
<1>1. TypeOK'
  BY DEF TypeOK, PCs
<1>2. Jobs'
  BY DEF Jobs, InWait, Working
<1>3. Flags'
  BY DEF Flags
<1>4. Locks'
  BY DEF Locks, TypeOK
<1>5. Sleepers'
  BY DEF Sleepers
<1>6. NoLostWakeup'
  BY DEF NoLostWakeup
<1>7. Progress'
  BY DEF Progress
<1>8. FilledAfterSource'
  BY DEF FilledAfterSource
<1> QED
  BY <1>1, <1>2, <1>3, <1>4, <1>5, <1>6, <1>7, <1>8

LEMMA UpdateCacheIInv ==
  ASSUME IInv, NEW t \in Threads, UpdateCache(t)
  PROVE  IInv'
<1> USE DEF IInv, UpdateCache, Goto
<1>1. TypeOK'
  BY DEF TypeOK, PCs, Jobs, Working
<1>2. Jobs'
  BY DEF Jobs, InWait, Working
<1>3. Flags'
  BY DEF Flags
<1>4. Locks'
  BY DEF Locks
<1>5. Sleepers'
  BY DEF Sleepers
<1>6. NoLostWakeup'
  BY DEF NoLostWakeup
<1>7. Progress'
  BY DEF Progress
<1>8. FilledAfterSource'
  BY SourceAssumption DEF FilledAfterSource, Jobs, Flags, Working
<1> QED
  BY <1>1, <1>2, <1>3, <1>4, <1>5, <1>6, <1>7, <1>8

LEMMA SetInitIInv ==
  ASSUME IInv, NEW t \in Threads, SetInit(t)
  PROVE  IInv'
<1> USE DEF IInv, SetInit, Goto
<1>1. TypeOK'
  BY DEF TypeOK, PCs
<1>2. Jobs'
  BY DEF Jobs, InWait, Working
<1>3. Flags'
  BY DEF Flags, TypeOK
<1>4. Locks'
  BY FreeIsNoThread DEF Locks, TypeOK, Flags
<1>5. Sleepers'
  BY DEF Sleepers
<1>6. NoLostWakeup'
  BY DEF NoLostWakeup, TypeOK
<1>7. Progress'
  BY DEF Progress
<1>8. FilledAfterSource'
  BY DEF FilledAfterSource
<1> QED
  BY <1>1, <1>2, <1>3, <1>4, <1>5, <1>6, <1>7, <1>8

LEMMA UnlockInitIInv ==
  ASSUME IInv, NEW t \in Threads, UnlockInit(t)
  PROVE  IInv'
<1> USE DEF IInv, UnlockInit, Goto
<1>1. TypeOK'
  BY DEF TypeOK, PCs
<1>2. Jobs'
  BY DEF Jobs, InWait, Working
<1>3. Flags'
  BY DEF Flags
<1>4. Locks'
  BY DEF Locks, TypeOK
<1>5. Sleepers'
  BY DEF Sleepers
<1>6. NoLostWakeup'
  BY DEF NoLostWakeup
<1>7. Progress'
  BY DEF Progress
<1>8. FilledAfterSource'
  BY DEF FilledAfterSource
<1> QED
  BY <1>1, <1>2, <1>3, <1>4, <1>5, <1>6, <1>7, <1>8

LEMMA NotifyAllIInv ==
  ASSUME IInv, NEW t \in Threads, NotifyAll(t)
  PROVE  IInv'
<1> USE DEF IInv, NotifyAll
<1>1. TypeOK'
  BY DEF TypeOK, PCs
<1>2. Jobs'
  BY CachesAssumption DEF Jobs, TypeOK, InWait, Working, Sleepers
<1>3. Flags'
  BY DEF Flags
<1>4. Locks'
  BY DEF Locks
<1>5. Sleepers'
  BY DEF Sleepers, TypeOK, Jobs, Working
<1>6. NoLostWakeup'
  BY DEF NoLostWakeup, TypeOK, Sleepers, Flags
<1>7. Progress'
  BY DEF Progress, Flags
<1>8. FilledAfterSource'
  BY DEF FilledAfterSource
<1> QED
  BY <1>1, <1>2, <1>3, <1>4, <1>5, <1>6, <1>7, <1>8

LEMMA ThreadReturnsIInv ==
  ASSUME IInv, NEW t \in Threads, ThreadReturns(t)
  PROVE  IInv'
<1> USE DEF IInv, ThreadReturns, Goto
<1>1. TypeOK'
  BY DEF TypeOK, PCs, initVars
<1>2. Jobs'
  BY DEF Jobs, InWait, Working
<1>3. Flags'
  BY DEF Flags, initVars
<1>4. Locks'
  BY DEF Locks
<1>5. Sleepers'
  BY DEF Sleepers, initVars
<1>6. NoLostWakeup'
  BY DEF NoLostWakeup, initVars
<1>7. Progress'
  BY DEF Progress, initVars
<1>8. FilledAfterSource'
  BY DEF FilledAfterSource, initVars
<1> QED
  BY <1>1, <1>2, <1>3, <1>4, <1>5, <1>6, <1>7, <1>8

LEMMA InitIInv == Init => IInv
<1> SUFFICES ASSUME Init PROVE IInv
  OBVIOUS
<1> USE DEF Init
<1>1. TypeOK
  BY DEF TypeOK, PCs
<1>2. Jobs /\ Flags /\ Locks /\ Sleepers
  BY CachesAssumption DEF Jobs, Flags, Locks, Sleepers, InWait, Working
<1>3. NoLostWakeup /\ Progress /\ FilledAfterSource
  BY DEF NoLostWakeup, Progress, FilledAfterSource
<1> QED
  BY <1>1, <1>2, <1>3 DEF IInv

LEMMA NextIInv == IInv /\ [Next]_vars => IInv'
<1> SUFFICES ASSUME IInv, [Next]_vars PROVE IInv'
  OBVIOUS
<1>1. CASE MainStep \/ \E c \in Caches : QueryEnds(c)
  BY <1>1, MainAndQueriesIInv, RunThreadsIInv DEF MainStep
<1>2. ASSUME NEW t \in Threads, ThreadStep(t) \/ WakeSpuriously(t)
      PROVE  IInv'
  <2>1. CASE \E c \in Caches : OnInitQueryCompletion(t, c)
    BY <2>1, OnInitQueryCompletionIInv
  <2>2. CASE CheckInit(t) \/ LockForWait(t) \/ TestInit(t) \/ Park(t)
    BY <2>2, CheckInitIInv, LockForWaitIInv, TestInitIInv, ParkIInv
  <2>3. CASE LeaveWait(t) \/ UpdateCache(t) \/ SetInit(t) \/ UnlockInit(t)
    BY <2>3, LeaveWaitIInv, UpdateCacheIInv, SetInitIInv, UnlockInitIInv
  <2>4. CASE NotifyAll(t) \/ ThreadReturns(t) \/ WakeSpuriously(t)
    BY <2>4, NotifyAllIInv, ThreadReturnsIInv, WakeSpuriouslyIInv
  <2> QED
    BY <1>2, <2>1, <2>2, <2>3, <2>4 DEF ThreadStep
<1>3. CASE UNCHANGED vars
  <2>1. TypeOK' /\ Progress'
    BY <1>3 DEF IInv, TypeOK, Progress, vars, threadVars, initVars
  <2> QED
    BY <1>3, <2>1, QuietIInv DEF vars, threadVars, initVars
<1> QED
  BY <1>1, <1>2, <1>3 DEF Next, Alive, Ended

\* When the main thread has joined the pool, every query was handled.
LEMMA JoinedMeansFilled == IInv => StartsFilled
<1> SUFFICES ASSUME IInv, main \in {"update", "serving"}
             PROVE  filled = Caches /\ \A c \in Caches : isInit[c]
  BY DEF StartsFilled
<1>1. \A t \in Threads : pc[t] = "done"
  BY DEF IInv, Progress
<1>2. \A c \in Caches : isInit[c]
  <2> SUFFICES ASSUME NEW c \in Caches PROVE isInit[c]
    OBVIOUS
  <2>1. Cardinality(Caches) \in Nat /\ Cardinality(Caches) # 0
    BY CachesAssumption, FS_EmptySet, FS_CardinalityType
  <2>2. 1 \in Threads
    BY <2>1 DEF Threads
  <2>3. query[c] = "taken"
    BY <1>1, <2>2 DEF IInv, Progress
  <2>4. \A t \in Threads : job[t] \notin Caches
    BY <1>1 DEF IInv, Jobs, Working, InWait
  <2> QED
    BY <2>3, <2>4 DEF IInv, Progress
<1>3. Caches \subseteq filled /\ filled \subseteq Caches
  BY <1>2 DEF IInv, Flags, TypeOK
<1> QED
  BY <1>2, <1>3

----------------------------------------------------------------------------
THEOREM Invariance == Spec => []IInv
  BY InitIInv, NextIInv, PTL DEF Spec

\* Every variable of the start keeps its type.
THEOREM TypeCorrect == Spec => []TypeOK
  BY Invariance, PTL DEF IInv

\* WaitForInit (pg_cache.hpp:245-251): a cache that reads another one while it
\* is filled reads it filled.
THEOREM SourceFilledFirst == Spec => []FilledAfterSource
  BY Invariance, PTL DEF IInv

\* NotifyAboutInitCompletion (pg_cache.hpp:253-258) wakes every sleeper.
THEOREM NoWakeupIsLost == Spec => []NoLostWakeup
  BY Invariance, PTL DEF IInv

\* InitPgCaches (server_builder.cpp:43-61): when it returns, every cache holds
\* its first rows, and only then do updates and requests start.
THEOREM ServesFilled == Spec => []StartsFilled
  BY Invariance, JoinedMeansFilled, PTL
============================================================================
