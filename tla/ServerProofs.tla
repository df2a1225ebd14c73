---------------------------- MODULE ServerProofs ----------------------------
(* The accept loop and the end of the server, for every number of threads,   *)
(* io_contexts and clients.                                                  *)
(*                                                                           *)
(* Two invariants carry the proofs.  AcceptInv says in which of three states *)
(* the one accept is and whose address endpoint_ holds in each.  StopInv ties*)
(* the threads that have ended to the io_contexts that are stopped, and that *)
(* of the server to the signal.                                              *)
EXTENDS Server, FiniteSetTheorems, SequenceTheorems, TLAPS

NoOnAccept == \A t \in Threads : ~ InOnAccept(t)

\* An async_accept is pending.
Pending == accepts = 1 /\ accepted = <<>> /\ NoOnAccept

\* Its completion is due.
Due ==
    /\ accepts = 0 /\ Len(accepted) = 1 /\ NoOnAccept
    /\ accepted[1] # None => accepted[1] = endpoint

\* OnAccept runs, on one thread.
Handled ==
    /\ accepts = 0 /\ accepted = <<>>
    /\ \E t \in Threads :
         /\ InOnAccept(t)
         /\ \A u \in Threads : InOnAccept(u) => u = t
         /\ thread[t] = "onAccept" /\ socket # None => socket = endpoint

AcceptInv ==
    /\ main \in {"listen", "failed"} =>
         accepts = 0 /\ accepted = <<>> /\ \A t \in Threads : thread[t] = "new"
    /\ main \notin {"listen", "failed"} => Pending \/ Due \/ Handled
    /\ SessionKnowsItsClient

StopInv ==
    /\ \A t \in Threads : thread[t] = "ended" => ContextOf[t] \in stopped
    /\ \A t \in Threads : thread[t] = "stop" => signal = "taken"
    /\ ServerCtx \in stopped => signal = "taken"
    /\ stopping # {} => \E t \in Threads : thread[t] = "stop"
    /\ main = "returned" => \A t \in Threads : thread[t] = "ended"

IInv == TypeOK /\ AcceptInv /\ StopInv
----------------------------------------------------------------------------
LEMMA InitIInv == Init => IInv
<1> SUFFICES ASSUME Init PROVE IInv
  OBVIOUS
<1>1. TypeOK
  BY DEF Init, TypeOK, ThreadStates, Sessions
<1>2. AcceptInv
  BY DEF Init, AcceptInv, SessionKnowsItsClient
<1>3. StopInv
  BY DEF Init, StopInv
<1> QED
  BY <1>1, <1>2, <1>3 DEF IInv

LEMMA NextTypeOK == TypeOK /\ [Next]_vars => TypeOK'
<1> SUFFICES ASSUME TypeOK, [Next]_vars PROVE TypeOK'
  OBVIOUS
<1> USE DEF TypeOK
<1> USE DEF ThreadStates, Moves, control, accepting
<1>1. ASSUME NEW c \in Clients, ClientConnects(c) PROVE TypeOK'
  BY <1>1 DEF ClientConnects
<1>2. ASSUME NEW c \in Clients, AcceptSucceeds(c) PROVE TypeOK'
  <2>1. accepts' \in Nat /\ endpoint' \in Clients \cup {None}
    BY <1>2 DEF AcceptSucceeds
  <2>2. accepted' \in Seq(Clients \cup {None})
    BY <1>2 DEF AcceptSucceeds
  <2> QED
    BY <1>2, <2>1, <2>2 DEF AcceptSucceeds
<1>3. CASE AcceptFails
  <2>1. accepts' \in Nat
    BY <1>3 DEF AcceptFails
  <2>2. accepted' \in Seq(Clients \cup {None})
    BY <1>3 DEF AcceptFails
  <2> QED
    BY <1>3, <2>1, <2>2 DEF AcceptFails
<1>4. CASE Signal
  BY <1>4 DEF Signal
<1>5. CASE Listen
  BY <1>5 DEF Listen
<1>6. CASE ListenThrows \/ AllStarted \/ JoinAll
  BY <1>6 DEF ListenThrows, AllStarted, JoinAll
<1>7. ASSUME NEW t \in Threads,
             \/ StartThread(t) \/ Loop(t) \/ RunReturns(t)
             \/ TakeWork(t) \/ WorkEnds(t) \/ WorkThrows(t)
      PROVE  TypeOK'
  BY <1>7 DEF StartThread, Loop, RunReturns, TakeWork, WorkEnds, WorkThrows
<1>8. ASSUME NEW t \in Threads, OutOfWork(t) PROVE TypeOK'
  BY <1>8, ContextAssumption DEF OutOfWork
<1>9. ASSUME NEW t \in Threads, TakeAccept(t) PROVE TypeOK'
  <2>1. /\ Head(accepted) \in Clients \cup {None}
        /\ Tail(accepted) \in Seq(Clients \cup {None})
    BY <1>9, HeadTailProperties DEF TakeAccept
  <2> QED
    BY <1>9, <2>1 DEF TakeAccept
<1>10. ASSUME NEW t \in Threads, OnAcceptError(t) \/ DoAccept(t) PROVE TypeOK'
  BY <1>10 DEF OnAcceptError, DoAccept
<1>11. ASSUME NEW t \in Threads, AsyncRunSession(t) PROVE TypeOK'
  <2>1. [client |-> socket, ip |-> endpoint] \in Sessions
    BY <1>11 DEF AsyncRunSession, Sessions
  <2> QED
    BY <1>11, <2>1 DEF AsyncRunSession
<1>12. ASSUME NEW t \in Threads, TakeSignal(t) \/ StopReturns(t) PROVE TypeOK'
  BY <1>12 DEF TakeSignal, StopReturns
<1>13. ASSUME NEW t \in Threads, NEW c \in stopping, StopContext(t, c) PROVE TypeOK'
  BY <1>13 DEF StopContext
<1>14. CASE UNCHANGED vars
  BY <1>14 DEF vars
<1> QED
  BY <1>1, <1>2, <1>3, <1>4, <1>5, <1>6, <1>7, <1>8, <1>9, <1>10, <1>11, <1>12,
     <1>13, <1>14 DEF Next, Step, Ended
----------------------------------------------------------------------------
\* Steps outside OnAccept that leave the acceptor alone.
LEMMA OthersAcceptInv ==
  ASSUME TypeOK, AcceptInv, UNCHANGED <<accepts, accepted, socket, endpoint, sessions>>,
         \A t \in Threads : thread'[t] = thread[t] \/
           /\ thread[t] \notin {"onAccept", "doAccept"}
           /\ thread'[t] \notin {"onAccept", "doAccept"},
         main \notin {"listen", "failed"}, main' \notin {"listen", "failed"}
  PROVE  AcceptInv'
<1>1. \A t \in Threads :
        /\ InOnAccept(t)' <=> InOnAccept(t)
        /\ thread'[t] = "onAccept" <=> thread[t] = "onAccept"
  BY DEF InOnAccept
<1>2. Pending => Pending'
  BY <1>1 DEF Pending, NoOnAccept
<1>3. Due => Due'
  BY <1>1 DEF Due, NoOnAccept
<1>4. Handled => Handled'
  BY <1>1 DEF Handled
<1>5. SessionKnowsItsClient'
  BY DEF AcceptInv, SessionKnowsItsClient
<1> QED
  BY <1>2, <1>3, <1>4, <1>5 DEF AcceptInv

\* Before the listener runs no thread does.
LEMMA ListenAcceptInv ==
  ASSUME TypeOK, AcceptInv, Listen \/ ListenThrows
  PROVE  AcceptInv'
<1>1. /\ main = "listen" /\ accepts = 0 /\ accepted = <<>>
      /\ \A t \in Threads : thread[t] = "new"
      /\ UNCHANGED <<thread, accepted, sessions>>
  BY DEF AcceptInv, Listen, ListenThrows, accepting
<1>2. SessionKnowsItsClient'
  BY <1>1 DEF AcceptInv, SessionKnowsItsClient
<1>3. CASE Listen
  <2>1. Pending'
    BY <1>1, <1>3 DEF Pending, NoOnAccept, InOnAccept, Listen
  <2> QED
    BY <1>2, <1>3, <2>1 DEF AcceptInv, Listen
<1>4. CASE ListenThrows
  BY <1>1, <1>2, <1>4 DEF AcceptInv, ListenThrows, accepting
<1> QED
  BY <1>3, <1>4

\* A pending accept completes: the connection's address is in endpoint_.
LEMMA CompletionAcceptInv ==
  ASSUME TypeOK, AcceptInv, AcceptFails \/ \E c \in Clients : AcceptSucceeds(c)
  PROVE  AcceptInv'
<1>1. accepts # 0 /\ UNCHANGED <<thread, main, sessions>>
  BY DEF AcceptFails, AcceptSucceeds, TypeOK, control
<1>2. Pending /\ main \notin {"listen", "failed"}
  BY <1>1 DEF AcceptInv, Due, Handled
<1>3. accepts' = 0
  BY <1>2 DEF AcceptFails, AcceptSucceeds, Pending
<1>4. Len(accepted') = 1 /\ (accepted'[1] # None => accepted'[1] = endpoint')
  <2>1. CASE AcceptFails
    <3>1. accepted' = <<None>>
      BY <1>2, <2>1 DEF AcceptFails, Pending
    <3> QED
      BY <3>1
  <2>2. ASSUME NEW c \in Clients, AcceptSucceeds(c)
        PROVE  Len(accepted') = 1 /\ (accepted'[1] # None => accepted'[1] = endpoint')
    <3>1. accepted' = <<c>> /\ endpoint' = c
      BY <1>2, <2>2 DEF AcceptSucceeds, Pending
    <3> QED
      BY <3>1
  <2> QED
    BY <2>1, <2>2
<1>5. NoOnAccept'
  BY <1>1, <1>2 DEF Pending, NoOnAccept, InOnAccept
<1>6. Due'
  BY <1>3, <1>4, <1>5 DEF Due
<1>7. SessionKnowsItsClient'
  BY <1>1 DEF AcceptInv, SessionKnowsItsClient
<1> QED
  BY <1>1, <1>2, <1>6, <1>7 DEF AcceptInv

\* OnAccept is called with the socket endpoint_ belongs to.
LEMMA TakeAcceptAcceptInv ==
  ASSUME TypeOK, AcceptInv, NEW t \in Threads, TakeAccept(t)
  PROVE  AcceptInv'
<1>1. /\ accepted # <<>> /\ thread[t] = "run"
      /\ thread' = [thread EXCEPT ![t] = "onAccept"]
      /\ socket' = Head(accepted) /\ accepted' = Tail(accepted)
      /\ UNCHANGED <<main, accepts, endpoint, sessions>>
  BY DEF TakeAccept, Moves, control
<1>2. main \notin {"listen", "failed"} /\ Due
  BY <1>1 DEF AcceptInv, Pending, Handled
<1>3. socket' = accepted[1] /\ accepted' = <<>>
  <2>1. accepted \in Seq(Clients \cup {None}) /\ Len(accepted) = 1
    BY <1>2 DEF TypeOK, Due
  <2>2. Tail(accepted) \in Seq(Clients \cup {None}) /\ Len(Tail(accepted)) = 0
    BY <1>1, <2>1, HeadTailProperties
  <2>3. Tail(accepted) = <<>>
    BY <2>2, EmptySeq
  <2> QED
    BY <1>1, <2>1, <2>3
<1>4. \A u \in Threads : InOnAccept(u)' <=> u = t
  BY <1>1, <1>2 DEF Due, NoOnAccept, InOnAccept, TypeOK
<1>5. Handled'
  <2>1. accepts' = 0
    BY <1>1, <1>2 DEF Due
  <2>2. socket' # None => socket' = endpoint'
    BY <1>1, <1>2, <1>3 DEF Due
  <2> QED
    BY <1>3, <1>4, <2>1, <2>2 DEF Handled
<1>6. SessionKnowsItsClient'
  BY <1>1 DEF AcceptInv, SessionKnowsItsClient
<1> QED
  BY <1>1, <1>2, <1>5, <1>6 DEF AcceptInv

\* A thread in OnAccept is the only one, and no accept is pending.
LEMMA InHandled ==
  ASSUME TypeOK, AcceptInv, NEW t \in Threads, InOnAccept(t)
  PROVE  /\ main \notin {"listen", "failed"}
         /\ accepts = 0 /\ accepted = <<>>
         /\ \A u \in Threads : InOnAccept(u) => u = t
         /\ thread[t] = "onAccept" /\ socket # None => socket = endpoint
<1>1. main \notin {"listen", "failed"} /\ Handled
  BY DEF AcceptInv, Pending, Due, NoOnAccept, InOnAccept
<1> QED
  BY <1>1 DEF Handled

LEMMA SessionAcceptInv ==
  ASSUME TypeOK, AcceptInv, NEW t \in Threads, AsyncRunSession(t)
  PROVE  AcceptInv'
<1>1. /\ thread[t] = "onAccept" /\ socket # None
      /\ thread' = [thread EXCEPT ![t] = "doAccept"]
      /\ sessions' = sessions \cup {[client |-> socket, ip |-> endpoint]}
      /\ UNCHANGED <<main, accepts, accepted, endpoint>>
  BY DEF AsyncRunSession, Moves, control
<1>2. /\ main \notin {"listen", "failed"} /\ accepts = 0 /\ accepted = <<>>
      /\ \A u \in Threads : InOnAccept(u) => u = t
      /\ socket = endpoint
  BY <1>1, InHandled DEF InOnAccept
<1>3. \A u \in Threads : InOnAccept(u)' <=> u = t
  BY <1>1, <1>2 DEF InOnAccept, TypeOK
<1>4. thread'[t] # "onAccept"
  BY <1>1 DEF TypeOK
<1>5. Handled'
  BY <1>1, <1>2, <1>3, <1>4 DEF Handled
<1>6. SessionKnowsItsClient'
  BY <1>1, <1>2 DEF AcceptInv, SessionKnowsItsClient
<1> QED
  BY <1>1, <1>2, <1>5, <1>6 DEF AcceptInv

\* OnAccept ends with the next accept.
LEMMA DoAcceptAcceptInv ==
  ASSUME TypeOK, AcceptInv, NEW t \in Threads, OnAcceptError(t) \/ DoAccept(t)
  PROVE  AcceptInv'
<1>1. /\ InOnAccept(t)
      /\ thread' = [thread EXCEPT ![t] = "run"]
      /\ accepts' = accepts + 1
      /\ UNCHANGED <<main, accepted, sessions>>
  BY DEF OnAcceptError, DoAccept, Moves, InOnAccept, control
<1>2. /\ main \notin {"listen", "failed"} /\ accepts = 0 /\ accepted = <<>>
      /\ \A u \in Threads : InOnAccept(u) => u = t
  BY <1>1, InHandled
<1>3. NoOnAccept'
  BY <1>1, <1>2 DEF NoOnAccept, InOnAccept, TypeOK
<1>4. Pending'
  BY <1>1, <1>2, <1>3 DEF Pending
<1>5. SessionKnowsItsClient'
  BY <1>1 DEF AcceptInv, SessionKnowsItsClient
<1> QED
  BY <1>1, <1>2, <1>4, <1>5 DEF AcceptInv

LEMMA NextAcceptInv == TypeOK /\ AcceptInv /\ [Next]_vars => AcceptInv'
<1> SUFFICES ASSUME TypeOK, AcceptInv, [Next]_vars PROVE AcceptInv'
  OBVIOUS
<1> USE DEF Moves, control, accepting
<1>1. CASE Listen \/ ListenThrows
  BY <1>1, ListenAcceptInv
<1>2. CASE AcceptFails \/ \E c \in Clients : AcceptSucceeds(c)
  BY <1>2, CompletionAcceptInv
<1>3. ASSUME NEW t \in Threads, TakeAccept(t) PROVE AcceptInv'
  BY <1>3, TakeAcceptAcceptInv
<1>4. ASSUME NEW t \in Threads, AsyncRunSession(t) PROVE AcceptInv'
  BY <1>4, SessionAcceptInv
<1>5. ASSUME NEW t \in Threads, OnAcceptError(t) \/ DoAccept(t) PROVE AcceptInv'
  BY <1>5, DoAcceptAcceptInv
<1>6. ASSUME UNCHANGED <<thread, main, accepts, accepted, socket, endpoint, sessions>>
      PROVE  AcceptInv'
  BY <1>6 DEF AcceptInv, Pending, Due, Handled, NoOnAccept, InOnAccept,
              SessionKnowsItsClient
<1>7. CASE \E c \in Clients : ClientConnects(c)
  BY <1>6, <1>7 DEF ClientConnects
<1>8. CASE Signal \/ Ended \/ UNCHANGED vars
  BY <1>6, <1>8 DEF Signal, Ended, vars
<1>9. ASSUME NEW t \in Threads, NEW c \in stopping, StopContext(t, c)
      PROVE  AcceptInv'
  BY <1>6, <1>9 DEF StopContext
<1>10. CASE AllStarted \/ JoinAll
  <2>1. /\ main \notin {"listen", "failed"} /\ main' \notin {"listen", "failed"}
        /\ UNCHANGED <<thread, accepts, accepted, socket, endpoint, sessions>>
    BY <1>10 DEF AllStarted, JoinAll
  <2> QED
    BY <2>1, OthersAcceptInv
<1>11. ASSUME NEW t \in Threads,
              \/ StartThread(t) \/ Loop(t) \/ RunReturns(t) \/ OutOfWork(t)
              \/ TakeWork(t) \/ WorkEnds(t) \/ WorkThrows(t)
              \/ TakeSignal(t) \/ StopReturns(t)
       PROVE  AcceptInv'
  <2>1. /\ UNCHANGED <<main, accepts, accepted, socket, endpoint, sessions>>
        /\ thread[t] \notin {"onAccept", "doAccept"}
        /\ \E s \in ThreadStates \ {"onAccept", "doAccept"} :
             thread' = [thread EXCEPT ![t] = s]
    BY <1>11 DEF StartThread, Loop, RunReturns, OutOfWork, TakeWork, WorkEnds,
                 WorkThrows, TakeSignal, StopReturns, ThreadStates
  <2>2. \A u \in Threads : thread'[u] = thread[u] \/
          /\ thread[u] \notin {"onAccept", "doAccept"}
          /\ thread'[u] \notin {"onAccept", "doAccept"}
    BY <2>1 DEF TypeOK
  <2>3. main \notin {"listen", "failed"}
    <3>1. thread[t] # "new" \/ main = "run"
      BY <1>11 DEF StartThread, Loop, RunReturns, OutOfWork, TakeWork, WorkEnds,
                   WorkThrows, TakeSignal, StopReturns
    <3> QED
      BY <3>1 DEF AcceptInv
  <2> QED
    BY <2>1, <2>2, <2>3, OthersAcceptInv
<1> QED
  BY <1>1, <1>2, <1>3, <1>4, <1>5, <1>7, <1>8, <1>9, <1>10, <1>11 DEF Next, Step
----------------------------------------------------------------------------
LEMMA NextStopInv == TypeOK /\ StopInv /\ [Next]_vars => StopInv'
<1> SUFFICES ASSUME TypeOK, StopInv, [Next]_vars PROVE StopInv'
  OBVIOUS
<1> USE DEF Moves, control, accepting
<1>1. ASSUME UNCHANGED <<thread, stopped, stopping>>, signal' # "taken" => signal # "taken",
             main' = "returned" => \A t \in Threads : thread[t] = "ended"
      PROVE  StopInv'
  BY <1>1 DEF StopInv
<1>2. CASE \/ \E c \in Clients : ClientConnects(c) \/ AcceptSucceeds(c)
           \/ AcceptFails \/ Signal \/ Ended \/ UNCHANGED vars
  <2>1. /\ UNCHANGED <<thread, stopped, stopping, main>>
        /\ signal' # "taken" => signal # "taken"
    BY <1>2 DEF ClientConnects, AcceptSucceeds, AcceptFails, Signal, Ended, vars
  <2> QED
    BY <1>1, <2>1 DEF StopInv
<1>3. CASE Listen \/ ListenThrows \/ AllStarted \/ JoinAll
  <2>1. /\ UNCHANGED <<thread, stopped, stopping, signal>>
        /\ main' = "returned" => \A t \in Threads : thread[t] = "ended"
    BY <1>3 DEF Listen, ListenThrows, AllStarted, JoinAll
  <2> QED
    BY <1>1, <2>1
\* A thread goes from one handler to another.
<1>4. ASSUME NEW t \in Threads, NEW s \in ThreadStates,
             thread' = [thread EXCEPT ![t] = s],
             thread[t] # "stop" \/ stopping = {}, thread[t] # "ended",
             s = "ended" => ContextOf[t] \in stopped, s # "stop",
             UNCHANGED <<main, signal, stopping>>,
             stopped' = stopped \/ (stopped' = stopped \cup {ContextOf[t]} /\ ContextOf[t] # ServerCtx)
      PROVE  StopInv'
  <2>1. /\ thread'[t] = s
        /\ \A u \in Threads : u # t => thread'[u] = thread[u]
    BY <1>4 DEF TypeOK
  <2>2. \A u \in Threads : thread'[u] = "ended" => ContextOf[u] \in stopped'
    BY <1>4, <2>1 DEF StopInv
  <2>3. \A u \in Threads : thread'[u] = "stop" => signal' = "taken"
    BY <1>4, <2>1 DEF StopInv
  <2>4. ServerCtx \in stopped' => signal' = "taken"
    BY <1>4 DEF StopInv
  <2>5. stopping' # {} => \E u \in Threads : thread'[u] = "stop"
    BY <1>4, <2>1 DEF StopInv
  <2>6. main' = "returned" => \A u \in Threads : thread'[u] = "ended"
    BY <1>4, <2>1 DEF StopInv
  <2> QED
    BY <2>2, <2>3, <2>4, <2>5, <2>6 DEF StopInv
<1>5. ASSUME NEW t \in Threads,
             \/ StartThread(t) \/ Loop(t) \/ RunReturns(t)
             \/ TakeWork(t) \/ WorkEnds(t) \/ WorkThrows(t)
             \/ TakeAccept(t) \/ OnAcceptError(t) \/ AsyncRunSession(t)
             \/ DoAccept(t) \/ StopReturns(t)
      PROVE  StopInv'
  <2>1. \E s \in ThreadStates \ {"stop"} :
          /\ thread' = [thread EXCEPT ![t] = s]
          /\ s = "ended" => ContextOf[t] \in stopped
    BY <1>5 DEF StartThread, Loop, RunReturns, TakeWork, WorkEnds, WorkThrows,
                TakeAccept, OnAcceptError, AsyncRunSession, DoAccept, StopReturns,
                ThreadStates
  <2>2. /\ thread[t] # "stop" \/ stopping = {}
        /\ thread[t] # "ended"
        /\ UNCHANGED <<main, signal, stopping, stopped>>
    BY <1>5 DEF StartThread, Loop, RunReturns, TakeWork, WorkEnds, WorkThrows,
                TakeAccept, OnAcceptError, AsyncRunSession, DoAccept, StopReturns
  <2> QED
    BY <1>4, <2>1, <2>2
\* An io_context nobody gives work to is not the server's.
<1>6. ASSUME NEW t \in Threads, OutOfWork(t) PROVE StopInv'
  <2>1. ContextOf[t] # ServerCtx
    BY <1>6, ContextAssumption DEF OutOfWork
  <2> QED
    BY <1>4, <1>6, <2>1 DEF OutOfWork, ThreadStates
<1>7. ASSUME NEW t \in Threads, TakeSignal(t) PROVE StopInv'
  <2>1. /\ thread[t] = "run" /\ thread' = [thread EXCEPT ![t] = "stop"]
        /\ signal' = "taken" /\ UNCHANGED <<main, stopped>>
    BY <1>7 DEF TakeSignal
  <2>2. /\ thread'[t] = "stop"
        /\ \A u \in Threads : u # t => thread'[u] = thread[u]
    BY <2>1 DEF TypeOK
  <2> QED
    BY <2>1, <2>2 DEF StopInv
<1>8. ASSUME NEW t \in Threads, NEW c \in stopping, StopContext(t, c) PROVE StopInv'
  <2>1. /\ thread[t] = "stop" /\ UNCHANGED <<thread, main, signal>>
        /\ stopping' = stopping \ {c} /\ stopped' = stopped \cup {c}
    BY <1>8 DEF StopContext
  <2>2. signal = "taken"
    BY <2>1 DEF StopInv
  <2> QED
    BY <2>1, <2>2 DEF StopInv
<1> QED
  BY <1>2, <1>3, <1>5, <1>6, <1>7, <1>8 DEF Next, Step

LEMMA NextIInv == IInv /\ [Next]_vars => IInv'
BY NextTypeOK, NextAcceptInv, NextStopInv DEF IInv

LEMMA Invariance == Spec => []IInv
<1>1. Init => IInv
  BY InitIInv
<1>2. IInv /\ [Next]_vars => IInv'
  BY NextIInv
<1> QED
  BY <1>1, <1>2, PTL DEF Spec
----------------------------------------------------------------------------
\* Every variable has the values the code can give it.
THEOREM TypeCorrect == Spec => []TypeOK
<1>1. IInv => TypeOK
  BY DEF IInv
<1> QED
  BY <1>1, Invariance, PTL

\* OnAccept starts the next accept exactly once, after an error as after a
\* connection (listener.hpp:38): one accept is pending, due or handled.
THEOREM AcceptsOne == Spec => []OneAccept
<1>1. IInv => OneAccept
  <2> SUFFICES ASSUME IInv, main \notin {"listen", "failed"}
               PROVE  accepts + Len(accepted)
                        + Cardinality({t \in Threads : InOnAccept(t)}) = 1
    BY DEF OneAccept
  <2> DEFINE In == {t \in Threads : InOnAccept(t)}
  <2>1. CASE Pending
    <3>1. In = {}
      BY <2>1 DEF Pending, NoOnAccept
    <3>2. Cardinality(In) = 0
      BY <3>1, FS_EmptySet
    <3>3. accepts = 1 /\ Len(accepted) = 0
      BY <2>1 DEF Pending
    <3> QED
      BY <3>2, <3>3
  <2>2. CASE Due
    <3>1. In = {}
      BY <2>2 DEF Due, NoOnAccept
    <3>2. Cardinality(In) = 0
      BY <3>1, FS_EmptySet
    <3>3. accepts = 0 /\ Len(accepted) = 1
      BY <2>2 DEF Due
    <3> QED
      BY <3>2, <3>3
  <2>3. CASE Handled
    <3>1. \E t \in Threads : In = {t}
      BY <2>3 DEF Handled
    <3>2. Cardinality(In) = 1
      BY <3>1, FS_Singleton
    <3>3. accepts = 0 /\ Len(accepted) = 0
      BY <2>3 DEF Handled
    <3> QED
      BY <3>2, <3>3
  <2> QED
    BY <2>1, <2>2, <2>3 DEF IInv, AcceptInv
<1> QED
  BY <1>1, Invariance, PTL

\* The member endpoint_ that all accepts share holds the address of the
\* connection OnAccept was called for when the session is made (listener.hpp:49).
THEOREM SessionsKnowTheirClients == Spec => []SessionKnowsItsClient
<1>1. IInv => SessionKnowsItsClient
  BY DEF IInv, AcceptInv
<1> QED
  BY <1>1, Invariance, PTL

\* Run returns only after a signal, and when Stop has been through all
\* io_contexts, whatever handlers throw (io_context.cpp:35).
THEOREM EndsOnSignal == Spec => []RunsUntilSignal
<1>1. IInv => RunsUntilSignal
  <2> SUFFICES ASSUME IInv, main = "returned"
               PROVE  signal = "taken" /\ stopping = {}
    BY DEF RunsUntilSignal
  <2>1. \A t \in Threads : thread[t] = "ended"
    BY DEF IInv, StopInv
  <2>2. ServerCtx \in stopped
    BY <2>1, ThreadsAssumption DEF IInv, StopInv
  <2> QED
    BY <2>1, <2>2 DEF IInv, StopInv
<1> QED
  BY <1>1, Invariance, PTL
============================================================================
