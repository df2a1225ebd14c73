------------------------------- MODULE Server -------------------------------
(* The life of the server: ServerImpl (engine/src/http_server/server.cpp),   *)
(* its Listener (listener.hpp), the io_contexts with their threads           *)
(* (engine/src/components/io_context.cpp) and Main (engine/src/utils).       *)
(*                                                                           *)
(* Only the io_context of the server has the listener and the signal set.    *)
(* The handlers of sessions and caches are "work": they end, or throw.       *)
EXTENDS Naturals, Sequences, FiniteSets

CONSTANTS Threads,      \* the threads of all io_contexts
          Contexts,     \* the io_contexts among the components
          ContextOf,    \* the io_context whose pool a thread belongs to
          ServerCtx,    \* ServerIOContext
          Idle,         \* the io_contexts nobody gives work to
          Clients,      \* connections made to the port
          None          \* no client: an empty endpoint, a failed accept

ASSUME ContextAssumption ==
    /\ ContextOf \in [Threads -> Contexts]
    /\ ServerCtx \in Contexts
    /\ Idle \subseteq Contexts \ {ServerCtx}
\* threads_num of server_io_context is not zero.
ASSUME ThreadsAssumption == \E t \in Threads : ContextOf[t] = ServerCtx
ASSUME NoneAssumption == None \notin Clients

VARIABLES
    main,       \* Main::Run: listen, run, join, returned, failed
    thread,     \* where each thread is
    stopped,    \* the io_contexts that are stopped
    signal,     \* none, raised, taken (by the handler)
    stopping,   \* the io_contexts Stop has still to visit
    backlog,    \* clients waiting to be accepted
    accepts,    \* number of pending async_accepts
    accepted,   \* their completions that are due: a client, or None
    socket,     \* what OnAccept was called with
    endpoint,   \* endpoint_, written when a connection is accepted
    sessions    \* the sessions made: whose, and of which address

accepting == <<backlog, accepts, accepted, socket, endpoint, sessions>>
control == <<main, stopped, signal, stopping>>
vars == <<thread, control, accepting>>

\* new, loop (at the test of the loop), run (in io_context::run), the steps of
\* OnAccept, stop (in the signal handler), work (in another handler), ended
ThreadStates ==
    {"new", "loop", "run", "onAccept", "doAccept", "stop", "work", "ended"}
Sessions == [client : Clients, ip : Clients \cup {None}]

Init ==
    /\ main = "listen"
    /\ thread = [t \in Threads |-> "new"]
    /\ stopped = {}
    /\ signal = "none"
    /\ stopping = {}
    /\ backlog = {}
    /\ accepts = 0
    /\ accepted = <<>>
    /\ socket = None
    /\ endpoint = None
    /\ sessions = {}

Moves(t, from, to) ==
    thread[t] = from /\ thread' = [thread EXCEPT ![t] = to]

----------------------------------------------------------------------------
(* The outside: clients, the kernel, the operating system.                   *)

ClientConnects(c) ==
    /\ main \notin {"listen", "failed"} /\ c \notin backlog
    /\ \A s \in sessions : s.client # c
    /\ c # socket /\ \A i \in DOMAIN accepted : accepted[i] # c
    /\ backlog' = backlog \cup {c}
    /\ UNCHANGED <<thread, control, accepts, accepted, socket, endpoint, sessions>>

\* A connection is taken for a pending accept, and its address is stored.
AcceptSucceeds(c) ==
    /\ accepts > 0 /\ c \in backlog
    /\ backlog' = backlog \ {c}
    /\ accepts' = accepts - 1
    /\ accepted' = Append(accepted, c)
    /\ endpoint' = c
    /\ UNCHANGED <<thread, control, socket, sessions>>

\* For example when the process has no descriptor left.
AcceptFails ==
    /\ accepts > 0 /\ backlog # {}
    /\ accepts' = accepts - 1
    /\ accepted' = Append(accepted, None)
    /\ UNCHANGED <<thread, control, backlog, socket, endpoint, sessions>>

\* SIGINT or SIGTERM, once the signal set exists.  A second one finds nobody
\* waiting for it.
Signal ==
    /\ signal = "none"
    /\ signal' = "raised"
    /\ UNCHANGED <<thread, main, stopped, stopping, accepting>>

----------------------------------------------------------------------------
(* The main thread.                                                          *)

\* Run: MakeListener and the listener's Run.
Listen ==
    /\ main = "listen"
    /\ main' = "run"
    /\ accepts' = accepts + 1
    /\ UNCHANGED <<thread, stopped, signal, stopping, backlog, accepted,
                   socket, endpoint, sessions>>

\* ThreadPool::Run, for one io_context after the other.
StartThread(t) ==
    /\ main = "run"
    /\ \A u, v \in Threads :
         ContextOf[u] = ContextOf[v] /\ ContextOf[u] # ContextOf[t] =>
           (thread[u] = "new") = (thread[v] = "new")
    /\ Moves(t, "new", "loop")
    /\ UNCHANGED <<control, accepting>>

\* The port cannot be bound: Main::Run catches the exception and returns 1.
ListenThrows ==
    /\ main = "listen"
    /\ main' = "failed"
    /\ UNCHANGED <<thread, stopped, signal, stopping, accepting>>

AllStarted ==
    /\ main = "run"
    /\ \A t \in Threads : thread[t] # "new"
    /\ main' = "join"
    /\ UNCHANGED <<thread, stopped, signal, stopping, accepting>>

\* Join, for every io_context.  Then the server is destroyed.
JoinAll ==
    /\ main = "join"
    /\ \A t \in Threads : thread[t] = "ended"
    /\ main' = "returned"
    /\ UNCHANGED <<thread, stopped, signal, stopping, accepting>>

----------------------------------------------------------------------------
(* The threads.                                                              *)

\* The test of thread_cb's loop.
Loop(t) ==
    /\ Moves(t, "loop", IF ContextOf[t] \in stopped THEN "ended" ELSE "run")
    /\ UNCHANGED <<control, accepting>>

\* run returns after the handler during which its io_context was stopped.
RunReturns(t) ==
    /\ ContextOf[t] \in stopped
    /\ Moves(t, "run", "loop")
    /\ UNCHANGED <<control, accepting>>

\* run finds its io_context without work, and stops it.
OutOfWork(t) ==
    /\ ContextOf[t] \in Idle
    /\ Moves(t, "run", "loop")
    /\ stopped' = stopped \cup {ContextOf[t]}
    /\ UNCHANGED <<main, signal, stopping, accepting>>

\* run calls a handler.
Runs(t) == thread[t] = "run" /\ ContextOf[t] \notin stopped

TakeWork(t) ==
    /\ Runs(t) /\ ContextOf[t] \notin Idle
    /\ Moves(t, "run", "work")
    /\ UNCHANGED <<control, accepting>>

WorkEnds(t) ==
    /\ Moves(t, "work", "run")
    /\ UNCHANGED <<control, accepting>>

\* Mutant: no loop around run.
WorkEndsThread(t) ==
    /\ Moves(t, "work", "ended")
    /\ UNCHANGED <<control, accepting>>

\* run throws what the handler threw; thread_cb logs it.
WorkThrows(t) ==
    /\ Moves(t, "work", "loop")
    /\ UNCHANGED <<control, accepting>>

----------------------------------------------------------------------------
(* The listener.  Its handlers run on a strand.                              *)

InOnAccept(t) == thread[t] \in {"onAccept", "doAccept"}

TakeAccept(t) ==
    /\ Runs(t) /\ ContextOf[t] = ServerCtx
    /\ accepted # <<>> /\ ~ \E u \in Threads : InOnAccept(u)
    /\ Moves(t, "run", "onAccept")
    /\ socket' = Head(accepted)
    /\ accepted' = Tail(accepted)
    /\ UNCHANGED <<control, backlog, accepts, endpoint, sessions>>

\* Mutant: OnAccept does not return after the error.
OnAcceptGoesOn(t) ==
    /\ Moves(t, "onAccept", IF socket = None THEN "doAccept" ELSE "run")
    /\ accepts' = accepts + 1
    /\ endpoint' = None
    /\ UNCHANGED <<control, backlog, accepted, socket, sessions>>

\* Mutant: an error ends the accept loop.
OnAcceptErrorStops(t) ==
    /\ socket = None
    /\ Moves(t, "onAccept", "run")
    /\ UNCHANGED <<control, accepting>>

\* OnAccept with an error: DoAccept.
OnAcceptError(t) ==
    /\ socket = None
    /\ Moves(t, "onAccept", "run")
    /\ accepts' = accepts + 1
    /\ endpoint' = None
    /\ UNCHANGED <<control, backlog, accepted, socket, sessions>>

\* Mutant: the next accept is started before the session is made.
DoAcceptFirst(t) ==
    /\ socket # None
    /\ Moves(t, "onAccept", "run")
    /\ accepts' = accepts + 1
    /\ endpoint' = None
    /\ sessions' = sessions \cup {[client |-> socket, ip |-> endpoint']}
    /\ socket' = None
    /\ UNCHANGED <<control, backlog, accepted>>

\* Mutant: the error is not looked at.
AsyncRunSessionUnchecked(t) ==
    /\ Moves(t, "onAccept", "doAccept")
    /\ sessions' = sessions \cup {[client |-> socket, ip |-> endpoint]}
    /\ socket' = None
    /\ UNCHANGED <<control, backlog, accepts, accepted, endpoint>>

\* OnAccept: the session of the new connection, with the address in endpoint_.
AsyncRunSession(t) ==
    /\ socket # None
    /\ Moves(t, "onAccept", "doAccept")
    /\ sessions' = sessions \cup {[client |-> socket, ip |-> endpoint]}
    /\ socket' = None
    /\ UNCHANGED <<control, backlog, accepts, accepted, endpoint>>

DoAccept(t) ==
    /\ Moves(t, "doAccept", "run")
    /\ accepts' = accepts + 1
    /\ endpoint' = None
    /\ UNCHANGED <<control, backlog, accepted, socket, sessions>>

----------------------------------------------------------------------------
(* The signal handler: Stop.                                                 *)

\* Mutant: Stop stops the io_context it runs on.
TakeSignalOwn(t) ==
    /\ Runs(t) /\ ContextOf[t] = ServerCtx /\ signal = "raised"
    /\ Moves(t, "run", "stop")
    /\ signal' = "taken"
    /\ stopping' = {ServerCtx}
    /\ UNCHANGED <<main, stopped, accepting>>

TakeSignal(t) ==
    /\ Runs(t) /\ ContextOf[t] = ServerCtx /\ signal = "raised"
    /\ Moves(t, "run", "stop")
    /\ signal' = "taken"
    /\ stopping' = Contexts
    /\ UNCHANGED <<main, stopped, accepting>>

StopContext(t, c) ==
    /\ thread[t] = "stop" /\ c \in stopping
    /\ stopping' = stopping \ {c}
    /\ stopped' = stopped \cup {c}
    /\ UNCHANGED <<thread, main, signal, accepting>>

StopReturns(t) ==
    /\ stopping = {}
    /\ Moves(t, "stop", "run")
    /\ UNCHANGED <<control, accepting>>

Step(t) ==
    \/ Loop(t) \/ RunReturns(t) \/ OutOfWork(t)
    \/ TakeWork(t) \/ WorkEnds(t) \/ WorkThrows(t)
    \/ TakeAccept(t) \/ OnAcceptError(t) \/ AsyncRunSession(t) \/ DoAccept(t)
    \/ TakeSignal(t) \/ StopReturns(t)
    \/ \E c \in stopping : StopContext(t, c)

Over == main \in {"returned", "failed"}

Ended == Over /\ UNCHANGED vars

Next ==
    \/ \E c \in Clients : ClientConnects(c) \/ AcceptSucceeds(c)
    \/ AcceptFails \/ Signal
    \/ Listen \/ ListenThrows \/ AllStarted \/ JoinAll
    \/ \E t \in Threads : StartThread(t) \/ Step(t)
    \/ Ended

\* Every thread runs, and work ends.  What is due is called in the end, however
\* much other work there is: io_context calls handlers in the order they became
\* due.  Accepting a connection does not fail for ever.
Fairness ==
    /\ WF_vars(Listen \/ ListenThrows) /\ WF_vars(AllStarted) /\ WF_vars(JoinAll)
    /\ \A t \in Threads : WF_vars(StartThread(t)) /\ WF_vars(Step(t))
    /\ SF_vars(\E t \in Threads : TakeAccept(t))
    /\ SF_vars(\E t \in Threads : TakeSignal(t))
    /\ \A c \in Clients : SF_vars(AcceptSucceeds(c))

Spec == Init /\ [][Next]_vars
FairSpec == Spec /\ Fairness

----------------------------------------------------------------------------
\* Every variable has the values the code can give it.
TypeOK ==
    /\ main \in {"listen", "run", "join", "returned", "failed"}
    /\ thread \in [Threads -> ThreadStates]
    /\ stopped \subseteq Contexts
    /\ signal \in {"none", "raised", "taken"}
    /\ stopping \subseteq Contexts
    /\ backlog \subseteq Clients
    /\ accepts \in Nat
    /\ accepted \in Seq(Clients \cup {None})
    /\ socket \in Clients \cup {None}
    /\ endpoint \in Clients \cup {None}
    /\ sessions \subseteq Sessions

\* Once listening there is one accept, pending, due or being handled: its
\* endpoint_ is never shared by two, and accepting never stops.
OneAccept ==
    main \notin {"listen", "failed"} =>
      accepts + Len(accepted) + Cardinality({t \in Threads : InOnAccept(t)}) = 1

\* A session has the address of its own client, though the member endpoint_ is
\* used for all of them (listener.hpp:49).
SessionKnowsItsClient == \A s \in sessions : s.ip = s.client

\* The process leaves Run only after a signal: exceptions that escape from
\* handlers use up no thread of the server (io_context.cpp:35).
RunsUntilSignal == main = "returned" => signal = "taken" /\ stopping = {}

\* After a signal the server ends, also when it comes while the threads are
\* being started.
SignalEndsIt == signal = "raised" ~> Over

\* A client that connects gets a session unless the server is being stopped,
\* whatever accepts and handlers fail.
ClientsServed ==
    \A c \in Clients :
      c \in backlog ~> (\E s \in sessions : s.client = c) \/ signal # "none"
============================================================================
