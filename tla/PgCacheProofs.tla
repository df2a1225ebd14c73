--------------------------- MODULE PgCacheProofs ---------------------------
(* The refresh of a cache is safe for every table and any number of commits. *)
(*                                                                           *)
(* RefinesView and OneContinuation are proved from one inductive invariant,  *)
(* IInv.  A step of an updater is safe because the updater's chain has a     *)
(* single continuation (Chains), because the incremental updater never gets  *)
(* an answer (NoBookmark), and because the answer the full updater holds was *)
(* given no earlier than the rows in the cache were (CacheNotAhead).         *)
EXTENDS PgCache, TLAPS

(* The table.                                                                *)

\* Commits only add row versions, and the table started empty.
HistoryGrows ==
    /\ history[0] = NoRows
    /\ \A s, t \in 0..clock : s <= t => AtLeast(history[t], history[s])

\* A version is the number of a commit that has happened.
VersionsArePast == \A t \in 0..clock : \A r \in Rows : history[t][r] <= t

LEMMA WriteStep ==
  ASSUME TableTypeOK, NEW r \in Rows, DbWrite(r)
  PROVE  /\ clock \in Nat /\ clock' = clock + 1 /\ clock' <= MaxCommits
         /\ \A t \in 0..clock : t \in 0..clock' /\ history'[t] = history[t]
         /\ history'[clock'] = [history[clock] EXCEPT ![r] = clock']
         /\ \A t \in 0..clock' : t \in 0..clock \/ t = clock'
         /\ DOMAIN history' = 0..clock'
  BY MaxCommitsAssumption DEF TableTypeOK, DbWrite

\* A commit leaves the table well-formed and every earlier state as it was.
LEMMA WriteTyped ==
  ASSUME TableTypeOK, NEW r \in Rows, DbWrite(r)
  PROVE  TableTypeOK'
<1> DEFINE new == [history[clock] EXCEPT ![r] = clock']
<1>0. /\ clock \in Nat /\ clock' = clock + 1 /\ clock' <= MaxCommits
      /\ \A t \in 0..clock : t \in 0..clock' /\ history'[t] = history[t]
      /\ history'[clock'] = [history[clock] EXCEPT ![r] = clock']
      /\ \A t \in 0..clock' : t \in 0..clock \/ t = clock'
  BY WriteStep
<1>1. clock' \in 0..MaxCommits /\ clock' \in Nat
  BY <1>0, MaxCommitsAssumption
<1>2. history[clock] \in [Rows -> Nat]
  BY <1>0 DEF TableTypeOK, Versions
<1>3. new \in [Rows -> Nat]
  BY <1>1, <1>2
<1> HIDE DEF new
<1>4. history' = [t \in 0..clock' |-> IF t = clock' THEN new ELSE history[t]]
  BY DEF DbWrite, new
<1>5. \A t \in 0..clock' : t # clock' => history[t] \in [Rows -> Nat]
  BY <1>0 DEF TableTypeOK, Versions
<1> QED
  BY <1>1, <1>3, <1>4, <1>5 DEF TableTypeOK, Versions

LEMMA WriteGrows ==
  ASSUME TableTypeOK, HistoryGrows, VersionsArePast, NEW r \in Rows, DbWrite(r)
  PROVE  HistoryGrows' /\ VersionsArePast'
<1> DEFINE new == history'[clock']
<1>0. /\ clock \in Nat /\ clock' = clock + 1 /\ clock' <= MaxCommits
      /\ \A t \in 0..clock : t \in 0..clock' /\ history'[t] = history[t]
      /\ history'[clock'] = [history[clock] EXCEPT ![r] = clock']
      /\ \A t \in 0..clock' : t \in 0..clock \/ t = clock'
  BY WriteStep
<1>. TableTypeOK'
  BY WriteTyped
<1>1. /\ \A q \in Rows : new[q] = IF q = r THEN clock' ELSE history[clock][q]
      /\ history[clock] \in [Rows -> Nat]
      /\ clock \in 0..clock
      /\ new \in [Rows -> Nat]
  BY <1>0 DEF TableTypeOK, Versions
<1>2. \A q \in Rows : history[clock][q] <= clock /\ history[clock][q] \in Nat
  BY <1>1 DEF VersionsArePast
<1>3. \A q \in Rows : new[q] <= clock' /\ history[clock][q] <= new[q]
  BY <1>1, <1>2, <1>0
<1>4. VersionsArePast'
  <2> SUFFICES ASSUME NEW t \in 0..clock', NEW q \in Rows
               PROVE  history'[t][q] <= t
    BY DEF VersionsArePast
  <2>1. CASE t = clock'
    BY <2>1, <1>3
  <2>2. CASE t \in 0..clock
    BY <2>2, <1>0 DEF VersionsArePast
  <2> QED
    BY <2>1, <2>2, <1>0
<1>5. history'[0] = NoRows'
  BY <1>0 DEF HistoryGrows, NoRows
<1>6. \A s, t \in 0..clock' : s <= t => AtLeast(history'[t], history'[s])
  <2> SUFFICES ASSUME NEW s \in 0..clock', NEW t \in 0..clock', s <= t
               PROVE  AtLeast(history'[t], history'[s])
    OBVIOUS
  <2>1. CASE t \in 0..clock
    <3>1. s \in 0..clock
      BY <2>1, <1>0
    <3> QED
      BY <2>1, <3>1, <1>0 DEF HistoryGrows
  <2>2. CASE t = clock' /\ s \in 0..clock
    <3>1. \A q \in Rows : history[s][q] <= history[clock][q]
      BY <2>2, <1>0 DEF HistoryGrows, AtLeast
    <3>2. \A q \in Rows : history[s][q] \in Nat
      BY <2>2 DEF TableTypeOK, Versions
    <3>3. \A q \in Rows : history[s][q] <= new[q]
      BY <3>1, <3>2, <1>1, <1>2, <1>3
    <3> QED
      BY <2>2, <3>3, <1>0 DEF AtLeast
  <2>3. CASE t = clock' /\ s = clock'
    <3>1. \A q \in Rows : new[q] <= new[q]
      BY <1>1
    <3> QED
      BY <2>3, <3>1 DEF AtLeast
  <2> QED
    BY <2>1, <2>2, <2>3, <1>0
<1> QED
  BY <1>4, <1>5, <1>6 DEF HistoryGrows
----------------------------------------------------------------------------
(* The cache.                                                                *)

HasRows == phase \in {"initialised", "running"}

\* Before the updaters run they have no continuation; then exactly one, which
\* is never a cancelled wait.
Chains ==
    /\ phase # "running" => \A u \in Updaters : conts[u] = {}
    /\ \A u \in Updaters : \A c \in conts[u] : c.stage # "aborted"
    /\ OneContinuation

\* What is pending carries moments of the past.
AnswersArePast == \A u \in Updaters : \A c \in conts[u] : c.asOf <= clock

\* The incremental updater has no bookmark and gets no answer.
NoBookmark ==
    /\ phase # "running" => updateTime["update"] = NoTime
    /\ lastUpdateTime["update"] = NoTime
    /\ \A c \in conts["update"] :
         c.since = NoTime /\ c.stage \notin {"answered", "posted"}

\* The cache is the table at one moment, and no answer in flight is older.
CacheNotAhead ==
    /\ ~ HasRows => cache = NoRows
    /\ \E k \in 0..clock :
         /\ cache = history[k]
         /\ \A c \in conts["full"] :
              c.stage \in {"answered", "posted"} => k <= c.asOf

IInv == /\ TypeOK
        /\ HistoryGrows /\ VersionsArePast
        /\ Chains
        /\ AnswersArePast
        /\ NoBookmark
        /\ CacheNotAhead
----------------------------------------------------------------------------
\* With nothing else pending, arming the timer leaves just its wait.
LEMMA ArmedFromNothing == SetUpdateTimer({}) = {Wait}
  BY DEF SetUpdateTimer

LEMMA ContinuationsTyped ==
  /\ Wait \in Continuations
  /\ Failed \in Continuations
  /\ \A s \in Stages, b \in Times, t \in 0..MaxCommits :
       Cont(s, b, t) \in Continuations
  BY MaxCommitsAssumption
     DEF Wait, Failed, Cont, Continuations, Stages, Times, NoTime

\* Rows that were put into the empty cache are the rows of the answer.
LEMMA FirstFill ==
  ASSUME TypeOK, cache = NoRows
  PROVE  Applied("update", 0, initAsOf) = history[initAsOf]
<1>1. history[initAsOf] \in [Rows -> Nat]
  BY DEF TypeOK, TableTypeOK, Versions
<1>2. \A r \in Rows :
        (IF history[initAsOf][r] > 0 THEN history[initAsOf][r] ELSE cache[r])
          = history[initAsOf][r]
  <2> TAKE r \in Rows
  <2>1. history[initAsOf][r] \in Nat
    BY <1>1
  <2>2. cache[r] = 0
    BY DEF NoRows
  <2> QED
    BY <2>1, <2>2
<1> QED
  BY <1>1, <1>2 DEF Applied

LEMMA InitIInv == Init => IInv
<1> SUFFICES ASSUME Init PROVE IInv
  OBVIOUS
<1> USE MaxCommitsAssumption DEF Init, TableInit
<1>1. TypeOK
  BY DEF TypeOK, TableTypeOK, Versions, NoRows, Phases, Times, NoTime, Updaters
<1>2. HistoryGrows /\ VersionsArePast
  BY DEF HistoryGrows, VersionsArePast, AtLeast, NoRows
<1>3. Chains
  BY DEF Chains, OneContinuation
<1>4. AnswersArePast
  BY DEF AnswersArePast
<1>5. NoBookmark
  BY DEF NoBookmark, Updaters
<1>6. CacheNotAhead
  BY DEF CacheNotAhead, HasRows, Updaters
<1> QED
  BY <1>1, <1>2, <1>3, <1>4, <1>5, <1>6 DEF IInv
----------------------------------------------------------------------------
(* One lemma per action.  Each part of IInv the action can disturb has a step *)
(* of its own.                                                               *)

\* Where the table and an updater's part of the state are left alone, so are
\* the facts about them.
LEMMA TableKept ==
  ASSUME IInv, UNCHANGED tableVars
  PROVE  /\ TableTypeOK'
         /\ HistoryGrows'
         /\ VersionsArePast'
  BY DEF IInv, TypeOK, tableVars, TableTypeOK, HistoryGrows, VersionsArePast,
         NoRows, AtLeast, Versions

LEMMA WriteIInv ==
  ASSUME IInv, NEW r \in Rows, Write(r)
  PROVE  IInv'
<1>0. TypeOK /\ DbWrite(r) /\ UNCHANGED <<cache, initVars, updaterVars>>
  BY DEF IInv, Write
<1>1. TableTypeOK /\ HistoryGrows /\ VersionsArePast
  BY DEF IInv, TypeOK
<1>2. TableTypeOK'
  BY <1>0, <1>1, WriteTyped
<1>3. HistoryGrows' /\ VersionsArePast'
  BY <1>0, <1>1, WriteGrows
<1>4. /\ clock \in Nat /\ clock' = clock + 1
      /\ \A t \in 0..clock : t \in 0..clock' /\ history'[t] = history[t]
  BY <1>0, <1>1, WriteStep
<1>5. TypeOK'
  BY <1>0, <1>2, <1>4 DEF TypeOK, initVars, updaterVars
<1>6. Chains' /\ NoBookmark'
  BY <1>0 DEF IInv, Chains, OneContinuation, NoBookmark, initVars, updaterVars
<1>7. AnswersArePast'
  <2> SUFFICES ASSUME NEW u \in Updaters, NEW c \in conts'[u]
               PROVE  c.asOf <= clock'
    BY DEF AnswersArePast
  <2>1. c \in conts[u] /\ c.asOf <= clock
    BY <1>0 DEF IInv, AnswersArePast, updaterVars
  <2>2. c.asOf \in Nat
    BY <1>0, <2>1, MaxCommitsAssumption DEF TypeOK, Continuations
  <2> QED
    BY <2>1, <2>2, <1>4
<1>8. CacheNotAhead'
  BY <1>0, <1>4 DEF IInv, CacheNotAhead, HasRows, initVars, updaterVars, NoRows
<1> QED
  BY <1>3, <1>5, <1>6, <1>7, <1>8 DEF IInv

\* The steps of the start, up to the first fill.
LEMMA StartIInv ==
  ASSUME IInv, DoInitQuery \/ InitQueryAnswered \/ OnInitQueryCompletion
  PROVE  IInv'
<1>0. /\ UNCHANGED tableVars /\ UNCHANGED updaterVars
      /\ phase # "running" /\ phase' # "running" /\ TypeOK
  BY DEF IInv, TypeOK, DoInitQuery, InitQueryAnswered, OnInitQueryCompletion
<1>1. HistoryGrows' /\ VersionsArePast' /\ TableTypeOK'
  BY <1>0, TableKept
<1>2. TypeOK'
  <2> USE <1>0, <1>1 DEF TypeOK, tableVars, updaterVars
  <2>1. CASE DoInitQuery
    BY <2>1 DEF DoInitQuery, Phases, Times, TableTypeOK
  <2>2. CASE InitQueryAnswered
    BY <2>2, MaxCommitsAssumption DEF InitQueryAnswered, Phases, TableTypeOK
  <2>3. CASE OnInitQueryCompletion
    <3>1. cache' \in Versions
      <4>1. CASE phase = "errored"
        BY <2>3, <4>1 DEF OnInitQueryCompletion
      <4>2. CASE phase = "answered"
        <5>1. cache = NoRows
          BY <4>2 DEF IInv, CacheNotAhead, HasRows
        <5>2. cache' = history[initAsOf]
          BY <2>3, <4>2, <5>1, FirstFill DEF OnInitQueryCompletion
        <5> QED
          BY <5>2 DEF TableTypeOK
      <4> QED
        BY <2>3, <4>1, <4>2 DEF OnInitQueryCompletion
    <3> QED
      BY <2>3, <3>1 DEF OnInitQueryCompletion, Phases
  <2> QED
    BY <2>1, <2>2, <2>3
<1>3. Chains' /\ AnswersArePast' /\ NoBookmark'
  BY <1>0 DEF IInv, Chains, OneContinuation, AnswersArePast, NoBookmark,
              tableVars, updaterVars
<1>4. CacheNotAhead'
  <2>0. \A u \in Updaters : conts'[u] = {}
    BY <1>0 DEF IInv, Chains, updaterVars
  <2>1. CASE DoInitQuery \/ InitQueryAnswered
    BY <1>0, <2>1 DEF IInv, CacheNotAhead, HasRows, DoInitQuery,
                      InitQueryAnswered, tableVars, updaterVars, NoRows
  <2>2. CASE OnInitQueryCompletion /\ phase = "errored"
    BY <1>0, <2>2 DEF IInv, CacheNotAhead, HasRows, OnInitQueryCompletion,
                      tableVars, updaterVars, NoRows
  <2>3. CASE OnInitQueryCompletion /\ phase = "answered"
    <3>1. cache = NoRows
      BY <2>3 DEF IInv, CacheNotAhead, HasRows
    <3>2. cache' = history[initAsOf] /\ initAsOf \in 0..clock
      BY <1>0, <2>3, <3>1, FirstFill DEF OnInitQueryCompletion, TypeOK
    <3> QED
      BY <1>0, <2>0, <2>3, <3>2
         DEF CacheNotAhead, HasRows, OnInitQueryCompletion, tableVars, Updaters
  <2> QED
    BY <2>1, <2>2, <2>3 DEF OnInitQueryCompletion
<1> QED
  BY <1>1, <1>2, <1>3, <1>4 DEF IInv

LEMMA AsyncRunUpdateIInv ==
  ASSUME IInv, AsyncRunUpdate
  PROVE  IInv'
<1>0. /\ UNCHANGED tableVars /\ UNCHANGED <<cache, initAsOf, initTime, updateTime>>
      /\ phase = "initialised" /\ phase' = "running" /\ TypeOK
      /\ \A u \in Updaters : conts[u] = {}
  BY DEF IInv, AsyncRunUpdate, Chains
<1>1. HistoryGrows' /\ VersionsArePast' /\ TableTypeOK'
  BY <1>0, TableKept
<1>2. conts' = [u \in Updaters |-> {Wait}]
  BY <1>0, ArmedFromNothing DEF AsyncRunUpdate
<1>3. lastUpdateTime' = [lastUpdateTime EXCEPT !["update"] = NoTime]
  BY <1>0 DEF AsyncRunUpdate, SetLastUpdateTime, IInv, NoBookmark
<1>4. TypeOK'
  BY <1>0, <1>1, <1>2, <1>3, ContinuationsTyped
     DEF TypeOK, tableVars, Phases, Times, Updaters
<1>5. Chains'
  <2>1. Wait.stage # "aborted"
    BY DEF Wait, Cont
  <2>2. \A u \in Updaters : conts'[u] = {Wait}
    BY <1>2
  <2> HIDE DEF Wait
  <2> QED
    BY <1>0, <2>1, <2>2 DEF Chains, OneContinuation
<1>6. AnswersArePast'
  BY <1>0, <1>2 DEF AnswersArePast, Wait, Cont, TypeOK, TableTypeOK, tableVars
<1>7. NoBookmark'
  BY <1>0, <1>2, <1>3 DEF NoBookmark, Wait, Cont, TypeOK, Updaters
<1>8. CacheNotAhead'
  <2>1. \A c \in conts'["full"] : c.stage \notin {"answered", "posted"}
    BY <1>2 DEF Wait, Cont, Updaters
  <2> QED
    BY <1>0, <2>1 DEF IInv, CacheNotAhead, HasRows, tableVars
<1> QED
  BY <1>1, <1>4, <1>5, <1>6, <1>7, <1>8 DEF IInv

(* Every step of an updater replaces its one continuation by another.        *)

\* Updater u goes from continuation c to continuation d; the rest of the
\* process and the table stay.
Moves(u, c, d) ==
    /\ phase = "running" /\ UNCHANGED phase
    /\ conts[u] = {c}
    /\ conts' = [conts EXCEPT ![u] = {d}]
    /\ UNCHANGED <<tableVars, initVars>>

\* A continuation cannot be pending before the updaters run.
LEMMA PendingMeansRunning ==
  ASSUME IInv, NEW u \in Updaters, NEW c \in conts[u]
  PROVE  phase = "running" /\ conts[u] = {c}
  BY DEF IInv, Chains, OneContinuation

LEMMA MovesKeeps ==
  ASSUME IInv, NEW u \in Updaters, NEW c, NEW d \in Continuations,
         Moves(u, c, d), d.asOf <= clock, d.stage # "aborted",
         lastUpdateTime' \in [Updaters -> Times],
         updateTime' \in [Updaters -> Times], cache' \in Versions
  PROVE  /\ TypeOK' /\ HistoryGrows' /\ VersionsArePast' /\ Chains'
         /\ AnswersArePast'
         /\ \A v \in Updaters : conts'[v] = IF v = u THEN {d} ELSE conts[v]
<1>0. TypeOK /\ UNCHANGED tableVars /\ UNCHANGED initVars /\ conts \in [Updaters -> SUBSET Continuations]
  BY DEF IInv, TypeOK, Moves
<1>1. HistoryGrows' /\ VersionsArePast' /\ TableTypeOK'
  BY <1>0, TableKept
<1>2. \A v \in Updaters : conts'[v] = IF v = u THEN {d} ELSE conts[v]
  BY <1>0 DEF Moves
<1>3. conts' \in [Updaters -> SUBSET Continuations]
  BY <1>0 DEF Moves
<1>4. TypeOK'
  BY <1>0, <1>1, <1>3 DEF TypeOK, tableVars, initVars
<1>5. Chains'
  BY <1>2 DEF Moves, IInv, Chains, OneContinuation
<1>6. AnswersArePast'
  BY <1>0, <1>2 DEF IInv, AnswersArePast, tableVars
<1> QED
  BY <1>1, <1>2, <1>4, <1>5, <1>6

\* A step of either updater that leaves the cache alone, and after which the
\* full updater does not hold an answer it did not hold before.
LEMMA QuietMove ==
  ASSUME IInv, NEW u \in Updaters, NEW c \in conts[u], NEW d \in Continuations,
         Moves(u, c, d), d.asOf <= clock, d.stage # "aborted",
         UNCHANGED <<cache, lastUpdateTime>>,
         updateTime' \in [Updaters -> Times],
         u = "update" => d.since = NoTime /\ d.stage \notin {"answered", "posted"},
         d.stage \in {"answered", "posted"} =>
           d.asOf = clock \/ (c.stage \in {"answered", "posted"} /\ d.asOf = c.asOf)
  PROVE  IInv'
<1>0. TypeOK /\ UNCHANGED tableVars /\ phase = "running" /\ phase' = "running"
  BY DEF IInv, Moves
<1>1. /\ TypeOK' /\ HistoryGrows' /\ VersionsArePast' /\ Chains'
      /\ AnswersArePast'
      /\ \A v \in Updaters : conts'[v] = IF v = u THEN {d} ELSE conts[v]
  <2>1. lastUpdateTime' \in [Updaters -> Times] /\ cache' \in Versions
    BY <1>0 DEF TypeOK
  <2> QED
    BY <2>1, MovesKeeps
<1>2. NoBookmark'
  <2>1. \A e \in conts'["update"] :
          e.since = NoTime /\ e.stage \notin {"answered", "posted"}
    BY <1>1 DEF IInv, NoBookmark, Updaters
  <2> QED
    BY <1>0, <2>1 DEF IInv, NoBookmark
<1>3. CacheNotAhead'
  <2>1. PICK k \in 0..clock :
          /\ cache = history[k]
          /\ \A e \in conts["full"] :
               e.stage \in {"answered", "posted"} => k <= e.asOf
    BY DEF IInv, CacheNotAhead
  <2>2. k <= clock
    BY <1>0 DEF TypeOK, TableTypeOK
  <2>3. \A e \in conts'["full"] :
          e.stage \in {"answered", "posted"} => k <= e.asOf
    <3>1. CASE u = "full"
      BY <1>1, <2>1, <2>2, <3>1 DEF Updaters
    <3>2. CASE u = "update"
      BY <1>1, <2>1, <3>2 DEF Updaters
    <3> QED
      BY <3>1, <3>2 DEF Updaters
  <2> QED
    BY <1>0, <2>1, <2>3 DEF CacheNotAhead, HasRows, tableVars
<1> QED
  BY <1>1, <1>2, <1>3 DEF IInv

LEMMA OnUpdateTimerIInv ==
  ASSUME IInv, NEW u \in Updaters, OnUpdateTimer(u)
  PROVE  IInv'
<1>1. PICK c \in conts[u] :
        LET others == conts[u] \ {c}
            armed  == IF c.stage = "aborted" THEN SetUpdateTimer(others) ELSE others
        IN /\ c.stage \in {"wait", "aborted"}
           /\ updateTime' = [updateTime EXCEPT ![u] = clock]
           /\ conts' = [conts EXCEPT ![u] =
                          armed \cup {Cont("query", lastUpdateTime[u], 0)}]
           /\ UNCHANGED <<tableVars, cache, initVars, lastUpdateTime>>
  BY DEF OnUpdateTimer
<1> DEFINE d == Cont("query", lastUpdateTime[u], 0)
<1>2. phase = "running" /\ conts[u] = {c} /\ c.stage # "aborted" /\ TypeOK
  BY PendingMeansRunning DEF IInv, Chains
<1>3. conts' = [conts EXCEPT ![u] = {d}]
  BY <1>1, <1>2
<1>4. /\ d \in Continuations /\ d.asOf <= clock /\ d.stage = "query"
      /\ d.since = lastUpdateTime[u]
  <2>1. lastUpdateTime[u] \in Times /\ 0 \in 0..MaxCommits /\ clock \in Nat
    BY <1>2, MaxCommitsAssumption DEF TypeOK, TableTypeOK
  <2> QED
    BY <2>1, ContinuationsTyped DEF Cont, Stages
<1>5. updateTime' \in [Updaters -> Times]
  BY <1>1, <1>2 DEF TypeOK, TableTypeOK, Times
<1>6. Moves(u, c, d)
  BY <1>1, <1>2, <1>3 DEF Moves, initVars
<1>7. u = "update" => d.since = NoTime
  BY <1>4 DEF IInv, NoBookmark
<1> HIDE DEF d
<1>8. UNCHANGED <<cache, lastUpdateTime>>
  BY <1>1
<1> QED
  BY <1>4, <1>5, <1>6, <1>7, <1>8, QuietMove

LEMMA QueryEndsIInv ==
  ASSUME IInv, NEW u \in Updaters, QueryAnswered(u) \/ QueryFailed(u)
  PROVE  IInv'
<1>0. /\ TypeOK /\ UNCHANGED <<tableVars, cache, initVars, updateTime, lastUpdateTime>>
      /\ clock \in 0..MaxCommits
  BY DEF IInv, TypeOK, TableTypeOK, QueryAnswered, QueryFailed
<1>1. UNCHANGED <<cache, lastUpdateTime>> /\ updateTime' \in [Updaters -> Times]
  BY <1>0 DEF TypeOK
<1>2. CASE QueryAnswered(u)
  <2>1. PICK c \in conts[u] :
          /\ c.stage = "query" /\ ~ Rejected(u, c.since)
          /\ conts' = [conts EXCEPT ![u] =
                         (@ \ {c}) \cup {Cont("answered", c.since, clock)}]
    BY <1>2 DEF QueryAnswered
  <2> DEFINE d == Cont("answered", c.since, clock)
  <2>2. phase = "running" /\ conts[u] = {c}
    BY PendingMeansRunning
  <2>3. conts' = [conts EXCEPT ![u] = {d}]
    BY <2>1, <2>2
  <2>4. Moves(u, c, d)
    BY <1>0, <2>2, <2>3 DEF Moves, initVars
  <2>5. u # "update"
    BY <2>1 DEF IInv, NoBookmark, Rejected
  <2>6. /\ d \in Continuations /\ d.asOf = clock /\ d.asOf <= clock
        /\ d.stage = "answered"
    <3>1. c.since \in Times
      BY <1>0 DEF TypeOK, Continuations
    <3> QED
      BY <1>0, <3>1, ContinuationsTyped DEF Cont, Stages
  <2> HIDE DEF d
  <2> QED
    BY <1>1, <2>4, <2>5, <2>6, QuietMove
<1>3. CASE QueryFailed(u)
  <2>1. PICK c \in conts[u] :
          conts' = [conts EXCEPT ![u] = (@ \ {c}) \cup {Failed}]
    BY <1>3 DEF QueryFailed
  <2>2. phase = "running" /\ conts[u] = {c}
    BY PendingMeansRunning
  <2>3. conts' = [conts EXCEPT ![u] = {Failed}]
    BY <2>1, <2>2
  <2>4. Moves(u, c, Failed)
    BY <1>0, <2>2, <2>3 DEF Moves, initVars
  <2>5. /\ Failed \in Continuations /\ Failed.asOf <= clock
        /\ Failed.stage = "failed" /\ Failed.since = NoTime
    BY <1>0, ContinuationsTyped DEF Failed, Cont
  <2> QED
    BY <1>1, <2>4, <2>5, QuietMove
<1> QED
  BY <1>2, <1>3

LEMMA OnQueryCompletionIInv ==
  ASSUME IInv, NEW u \in Updaters, OnQueryCompletion(u)
  PROVE  IInv'
<1>1. PICK c \in conts[u] :
        LET others == conts[u] \ {c}
        IN \/ /\ c.stage = "failed"
              /\ conts' = [conts EXCEPT ![u] = SetUpdateTimer(others)]
           \/ /\ c.stage = "answered"
              /\ conts' = [conts EXCEPT ![u] =
                             others \cup {Cont("posted", c.since, c.asOf)}]
  BY DEF OnQueryCompletion
<1>0. /\ TypeOK /\ clock \in 0..MaxCommits
      /\ UNCHANGED <<tableVars, cache, initVars, updateTime, lastUpdateTime>>
  BY DEF IInv, TypeOK, TableTypeOK, OnQueryCompletion
<1>2. UNCHANGED <<cache, lastUpdateTime>> /\ updateTime' \in [Updaters -> Times]
  BY <1>0 DEF TypeOK
<1>3. phase = "running" /\ conts[u] = {c}
  BY PendingMeansRunning
<1>4. CASE c.stage = "failed"
  <2>1. conts' = [conts EXCEPT ![u] = {Wait}]
    BY <1>1, <1>3, <1>4, ArmedFromNothing
  <2>2. Moves(u, c, Wait)
    BY <1>0, <1>3, <2>1 DEF Moves, initVars
  <2>3. /\ Wait \in Continuations /\ Wait.asOf <= clock
        /\ Wait.stage = "wait" /\ Wait.since = NoTime
    BY <1>0, ContinuationsTyped DEF Wait, Cont
  <2> QED
    BY <1>2, <2>2, <2>3, QuietMove
<1>5. CASE c.stage = "answered"
  <2> DEFINE d == Cont("posted", c.since, c.asOf)
  <2>1. conts' = [conts EXCEPT ![u] = {d}]
    BY <1>1, <1>3, <1>5
  <2>2. Moves(u, c, d)
    BY <1>0, <1>3, <2>1 DEF Moves, initVars
  <2>3. u # "update"
    BY <1>5 DEF IInv, NoBookmark
  <2>4. /\ d \in Continuations /\ d.asOf = c.asOf /\ d.asOf <= clock
        /\ d.stage = "posted"
    <3>1. c.since \in Times /\ c.asOf \in 0..MaxCommits /\ c.asOf <= clock
      BY <1>0 DEF IInv, AnswersArePast, TypeOK, Continuations
    <3> QED
      BY <3>1, ContinuationsTyped DEF Cont, Stages
  <2> HIDE DEF d
  <2> QED
    BY <1>2, <1>5, <2>2, <2>3, <2>4, QuietMove
<1> QED
  BY <1>1, <1>4, <1>5

\* The rows an updater posts were read by the full query, no earlier than the
\* rows they replace: the one step that changes a running cache.
LEMMA UpdateCacheStep ==
  ASSUME IInv, NEW u \in Updaters, UpdateCache(u)
  PROVE  /\ IInv'
         /\ \E t \in 0..clock : cache' = history[t] /\ AtLeast(cache', cache)
<1>1. PICK c \in conts[u] :
        /\ c.stage = "posted"
        /\ lastUpdateTime' = [lastUpdateTime EXCEPT ![u] = updateTime[u]]
        /\ cache' = Applied(u, c.since, c.asOf)
        /\ conts' = [conts EXCEPT ![u] = SetUpdateTimer(@ \ {c})]
        /\ UNCHANGED <<tableVars, initVars, updateTime>>
  BY DEF UpdateCache
<1>0. /\ TypeOK /\ clock \in 0..MaxCommits /\ UNCHANGED tableVars
      /\ clock' = clock /\ history' = history
  BY <1>1 DEF IInv, TypeOK, TableTypeOK, tableVars
<1>2. phase = "running" /\ conts[u] = {c}
  BY PendingMeansRunning
<1>3. u = "full"
  BY <1>1 DEF IInv, NoBookmark, Updaters
<1>4. c.asOf \in 0..clock /\ cache' = history[c.asOf]
  <2>1. c.asOf \in 0..MaxCommits /\ c.asOf <= clock
    BY <1>0 DEF IInv, AnswersArePast, TypeOK, Continuations
  <2> QED
    BY <1>0, <1>1, <1>3, <2>1 DEF Applied
<1>5. AtLeast(cache', cache)
  <2>1. PICK k \in 0..clock : cache = history[k] /\ k <= c.asOf
    BY <1>1, <1>3 DEF IInv, CacheNotAhead
  <2> QED
    BY <1>4, <2>1 DEF IInv, HistoryGrows
<1>6. conts' = [conts EXCEPT ![u] = {Wait}]
  BY <1>1, <1>2, ArmedFromNothing
<1>7. Moves(u, c, Wait)
  BY <1>1, <1>2, <1>6 DEF Moves, initVars
<1>8. /\ Wait \in Continuations /\ Wait.asOf <= clock /\ Wait.stage = "wait"
  BY <1>0, ContinuationsTyped DEF Wait, Cont
<1>9. /\ lastUpdateTime' \in [Updaters -> Times] /\ cache' \in Versions
      /\ updateTime' \in [Updaters -> Times]
  BY <1>0, <1>1, <1>4 DEF TypeOK, TableTypeOK
<1>10. /\ TypeOK' /\ HistoryGrows' /\ VersionsArePast' /\ Chains'
       /\ AnswersArePast'
       /\ \A v \in Updaters : conts'[v] = IF v = u THEN {Wait} ELSE conts[v]
  <2>1. Wait.stage # "aborted"
    BY <1>8
  <2> QED
    BY <1>7, <1>8, <1>9, <2>1, MovesKeeps
<1>11. NoBookmark'
  <2>1. conts'["update"] = conts["update"]
    BY <1>3, <1>10 DEF Updaters
  <2>2. lastUpdateTime'["update"] = lastUpdateTime["update"]
    BY <1>0, <1>1, <1>3 DEF TypeOK, Updaters
  <2> QED
    BY <1>1, <1>2, <2>1, <2>2 DEF IInv, NoBookmark, initVars
<1>12. CacheNotAhead'
  <2>1. \A e \in conts'["full"] : e.stage \notin {"answered", "posted"}
    BY <1>3, <1>8, <1>10 DEF Updaters
  <2>2. HasRows'
    BY <1>1, <1>2 DEF HasRows, initVars
  <2> QED
    BY <1>0, <1>4, <2>1, <2>2 DEF CacheNotAhead
<1> QED
  BY <1>4, <1>5, <1>10, <1>11, <1>12 DEF IInv

LEMMA NextIInv == IInv /\ [Next]_vars => IInv'
<1> SUFFICES ASSUME IInv, [Next]_vars PROVE IInv'
  OBVIOUS
<1>1. ASSUME NEW r \in Rows, Write(r) PROVE IInv'
  BY <1>1, WriteIInv
<1>2. CASE DoInitQuery \/ InitQueryAnswered \/ OnInitQueryCompletion
  BY <1>2, StartIInv
<1>3. CASE AsyncRunUpdate
  BY <1>3, AsyncRunUpdateIInv
<1>4. ASSUME NEW u \in Updaters, UpdaterStep(u) PROVE IInv'
  BY <1>4, OnUpdateTimerIInv, OnQueryCompletionIInv, UpdateCacheStep
     DEF UpdaterStep
<1>5. ASSUME NEW u \in Updaters, QueryAnswered(u) \/ QueryFailed(u) PROVE IInv'
  BY <1>5, QueryEndsIInv
<1>6. CASE UNCHANGED vars
  <2> USE <1>6 DEF vars
  <2>1. HistoryGrows' /\ VersionsArePast' /\ TableTypeOK'
    BY TableKept DEF tableVars
  <2>2. TypeOK' /\ Chains' /\ AnswersArePast' /\ NoBookmark'
    BY <2>1 DEF IInv, TypeOK, Chains, OneContinuation, AnswersArePast, NoBookmark
  <2>3. CacheNotAhead'
    BY DEF IInv, CacheNotAhead, HasRows, NoRows
  <2> QED
    BY <2>1, <2>2, <2>3 DEF IInv
<1> QED
  BY <1>1, <1>2, <1>3, <1>4, <1>5, <1>6 DEF Next, Ended

----------------------------------------------------------------------------
THEOREM Invariance == Spec => []IInv
  BY InitIInv, NextIInv, PTL DEF Spec

\* Every variable of the cache's machinery keeps its type.
THEOREM TypeCorrect == Spec => []TypeOK
  BY Invariance, PTL DEF IInv

\* The refresh chain of an updater (SetUpdateTimer, OnUpdateTimer, DoQuery,
\* OnQueryCompletion, UpdateCache) never forks and never dies.
THEOREM ChainNeverForks == Spec => []OneContinuation
<1>1. IInv => OneContinuation
  BY DEF IInv, Chains
<1> QED
  BY <1>1, Invariance, PTL

\* The whole machinery implements the view that readers are promised: every
\* fill and every refresh puts one committed state of the table into the cache,
\* and never an older one than was there.
THEOREM Refinement == Spec => RefinesView
<1>1. Init => View!Init
  BY DEF Init, View!Init, TableInit, View!TableInit, NoRows, View!NoRows
<1>2. IInv /\ [Next]_vars => [View!Next]_(View!viewVars)
  <2> SUFFICES ASSUME IInv, [Next]_vars
               PROVE  View!Next \/ UNCHANGED View!viewVars
    OBVIOUS
  <2> USE DEF View!Next, View!viewVars
  <2>1. ASSUME NEW r \in Rows, Write(r) PROVE View!Next
    BY <2>1 DEF Write, View!Write, View!DbWrite, DbWrite
  <2>2. ASSUME NEW u \in Updaters, UpdateCache(u) PROVE View!Next
    <3>1. \E t \in 0..clock : cache' = history[t] /\ AtLeast(cache', cache)
      BY <2>2, UpdateCacheStep
    <3> QED
      BY <2>2, <3>1
         DEF UpdateCache, View!Refresh, View!AtLeast, AtLeast, View!tableVars,
             tableVars
  <2>3. CASE OnInitQueryCompletion /\ phase = "answered"
    <3>1. cache = NoRows
      BY <2>3 DEF IInv, CacheNotAhead, HasRows
    <3>2. cache' = history[initAsOf] /\ initAsOf \in 0..clock
      BY <2>3, <3>1, FirstFill DEF OnInitQueryCompletion, IInv, TypeOK
    <3>3. AtLeast(cache', cache)
      BY <3>1, <3>2
         DEF AtLeast, NoRows, IInv, TypeOK, TableTypeOK, Versions
    <3> QED
      BY <2>3, <3>2, <3>3
         DEF OnInitQueryCompletion, View!Refresh, View!AtLeast, AtLeast,
             View!tableVars, tableVars
  <2>4. CASE UNCHANGED <<clock, history, cache>>
    BY <2>4
  <2>5. CASE DoInitQuery \/ InitQueryAnswered \/ AsyncRunUpdate
             \/ (OnInitQueryCompletion /\ phase = "errored")
    BY <2>4, <2>5 DEF DoInitQuery, InitQueryAnswered, AsyncRunUpdate,
                      OnInitQueryCompletion, tableVars
  <2>6. ASSUME NEW u \in Updaters,
               OnUpdateTimer(u) \/ OnQueryCompletion(u)
               \/ QueryAnswered(u) \/ QueryFailed(u)
        PROVE  UNCHANGED <<clock, history, cache>>
    BY <2>6 DEF OnUpdateTimer, OnQueryCompletion, QueryAnswered, QueryFailed,
                tableVars
  <2>7. OnInitQueryCompletion => phase \in {"errored", "answered"}
    BY DEF OnInitQueryCompletion
  <2>8. UNCHANGED vars => UNCHANGED <<clock, history, cache>>
    BY DEF vars
  <2> QED
    BY <2>1, <2>2, <2>3, <2>4, <2>5, <2>6, <2>7, <2>8
       DEF Next, UpdaterStep, Ended
<1> QED
  BY <1>1, <1>2, Invariance, PTL DEF Spec, RefinesView, View!Spec

\* Readers of the cache see one committed state of the table, never a mixture.
THEOREM CacheIsSnapshot == Spec => []View!IsSnapshot
<1>1. IInv => View!IsSnapshot
  BY DEF IInv, CacheNotAhead, View!IsSnapshot
<1> QED
  BY <1>1, Invariance, PTL
============================================================================
