---------------------------- MODULE HttpSession ----------------------------
(* One connection of the HTTP server: HttpSessionBase                        *)
(* (engine/src/http_server/http_session.{hpp,cpp}), the request's way        *)
(* through RequestHandler and HttpResponse, and the client at the other end. *)
(*                                                                           *)
(* The session is kept alive by what is pending on it: a read, a write, or a *)
(* handler whose query is at the database.  Handlers of the session run on   *)
(* its strand, but the callback of a query, and the Write it makes, do not:  *)
(* only that nothing else is pending then keeps them apart.                  *)
(*                                                                           *)
(* A request is known by its place in the sequence the client sent.  What is *)
(* left out: what requests and replies say.                                  *)
EXTENDS Naturals, Sequences, FiniteSets

CONSTANTS Kinds,        \* how the requests' handlers behave
          MaxRequests   \* bound on the requests of a connection

\* "reply":        sends its reply before it returns: also an exception it
\*                 throws (ExceptionsHandler) and a path without a route
\* "close":        ends in HttpResponse::Close: an exception that is not a
\*                 std::exception, or a filter with nothing behind it
\* "query":        sends its reply in the callback of a database query
\* "postCurrency": so does POST /currencies, which on an error sends two
ASSUME KindsAssumption == Kinds \subseteq {"reply", "close", "query", "postCurrency"}
ASSUME MaxRequestsAssumption == MaxRequests \in Nat

VARIABLES
    requests,   \* what the client has sent
    peer,       \* the client: open, finished (sends no more), gone
    taken,      \* how many requests the session has read
    reads,      \* number of pending async_read
    handling,   \* the requests whose query is pending
    writes,     \* the pending async_writes, in order
    socket,     \* open, shut (shutdown_send), closed (timed out)
    received    \* the requests to which the client received replies, in order

sessionVars == <<taken, reads, handling, writes, socket>>
vars == <<requests, peer, received, sessionVars>>

Ids == 1..MaxRequests
Requests == [kind : Kinds, keepAlive : BOOLEAN]
Replies == [to : Ids, close : BOOLEAN]

\* Run: the session starts with a read.
Init ==
    /\ requests = <<>>
    /\ peer = "open"
    /\ taken = 0
    /\ reads = 1
    /\ handling = {}
    /\ writes = <<>>
    /\ socket = "open"
    /\ received = <<>>

----------------------------------------------------------------------------
(* The client.  It need not wait for a reply before the next request.        *)

ClientSends ==
    /\ peer = "open"
    /\ Len(requests) < MaxRequests
    /\ \E r \in Requests : requests' = Append(requests, r)
    /\ UNCHANGED <<peer, received, sessionVars>>

ClientLeaves ==
    /\ \/ peer = "open" /\ peer' \in {"finished", "gone"}
       \/ peer = "finished" /\ peer' = "gone"
    /\ UNCHANGED <<requests, received, sessionVars>>

----------------------------------------------------------------------------
(* The session.                                                              *)

\* Mutant: the reply goes to the request behind.
SendToNext(id, n) ==
    writes' = writes \o [i \in 1..n |->
                [to |-> id + 1, close |-> i = 1 /\ ~ requests[id].keepAlive]]

\* HttpResponse::Send n times, and Write each time.  Send moves the response
\* away, with what it says of the connection: only the first closes it.
Send(id, n) ==
    writes' = writes \o [i \in 1..n |->
                [to |-> id, close |-> i = 1 /\ ~ requests[id].keepAlive]]

\* The handler's reply, or that of the exceptions handler, or, where no route
\* is found, that of RequestHandler.
Process(id) ==
    /\ requests[id].kind = "reply"
    /\ Send(id, 1)
    /\ UNCHANGED <<handling, socket>>

\* HttpResponse::Close instead of a reply.
ReportUnkownError(id) ==
    /\ requests[id].kind = "close"
    /\ socket' = "shut"
    /\ UNCHANGED <<handling, writes>>

\* PgClient::Execute.
SendQuery(id) ==
    /\ requests[id].kind \in {"query", "postCurrency"}
    /\ handling' = handling \cup {id}
    /\ UNCHANGED <<writes, socket>>

Handle(id) == Process(id) \/ ReportUnkownError(id) \/ SendQuery(id)

\* Mutant: the next read is started with the handler.
OnReadAhead ==
    /\ reads > 0
    /\ taken < Len(requests)
    /\ socket # "closed"
    /\ taken' = taken + 1
    /\ Handle(taken + 1)
    /\ UNCHANGED <<reads, requests, peer, received>>

OnRead ==
    /\ reads > 0
    /\ taken < Len(requests)
    /\ socket # "closed"
    /\ taken' = taken + 1
    /\ reads' = reads - 1
    /\ Handle(taken + 1)
    /\ UNCHANGED <<requests, peer, received>>

\* OnRead with an error: end_of_stream closes the session's side as well.
OnReadError ==
    /\ reads > 0
    /\ \/ /\ peer = "finished"
          /\ taken = Len(requests)
          /\ socket # "closed"
          /\ socket' = "shut"
       \/ /\ peer = "gone" \/ socket = "closed"
          /\ UNCHANGED socket
    /\ reads' = reads - 1
    /\ UNCHANGED <<requests, peer, received, taken, handling, writes>>

\* Mutant: the callback has no return after the error's reply.
QueryEndsTwice(id, failed) ==
    /\ handling' = handling \ {id}
    /\ Send(id, IF failed THEN 2 ELSE 1)
    /\ UNCHANGED <<requests, peer, received, taken, reads, socket>>

\* The callback of the handler's (last) query.
QueryEnds(id, failed) ==
    /\ handling' = handling \ {id}
    /\ Send(id, IF failed /\ requests[id].kind = "postCurrency" THEN 2 ELSE 1)
    /\ UNCHANGED <<requests, peer, received, taken, reads, socket>>

QueryAnswered(id) == id \in handling /\ QueryEnds(id, FALSE)

\* Mutant: a query without a timeout, to a database that does not answer.
QueryNeverFails(id) == FALSE

\* The query failed, or its five seconds are over.
QueryFailed(id) == id \in handling /\ QueryEnds(id, TRUE)

\* Mutant: a reply that closes the connection is followed by a read.
OnWriteReads ==
    /\ writes # <<>>
    /\ socket = "open" /\ peer # "gone"
    /\ received' = Append(received, Head(writes).to)
    /\ writes' = Tail(writes)
    /\ reads' = reads + 1
    /\ UNCHANGED <<requests, peer, taken, handling, socket>>

OnWrite ==
    /\ writes # <<>>
    /\ socket = "open" /\ peer # "gone"
    /\ received' = Append(received, Head(writes).to)
    /\ writes' = Tail(writes)
    /\ IF Head(writes).close
         THEN socket' = "shut" /\ UNCHANGED reads
         ELSE reads' = reads + 1 /\ UNCHANGED socket
    /\ UNCHANGED <<requests, peer, taken, handling>>

\* OnWrite with an error.  A write that timed out may have reached the client.
OnWriteError ==
    /\ writes # <<>>
    /\ socket # "open" \/ peer = "gone"
    /\ received' \in {received} \cup
                     (IF socket = "closed" THEN {Append(received, Head(writes).to)}
                                           ELSE {})
    /\ writes' = Tail(writes)
    /\ UNCHANGED <<requests, peer, taken, reads, handling, socket>>

\* Mutant: only replies have a deadline.
TimeoutOfWrite ==
    /\ writes # <<>>
    /\ socket # "closed"
    /\ socket' = "closed"
    /\ UNCHANGED <<requests, peer, received, taken, reads, handling, writes>>

\* The deadline set by Read counts for that read and for the write of the
\* reply: when it passes during either, the socket is closed.
Timeout ==
    /\ reads > 0 \/ writes # <<>>
    /\ socket # "closed"
    /\ socket' = "closed"
    /\ UNCHANGED <<requests, peer, received, taken, reads, handling, writes>>

----------------------------------------------------------------------------
\* Nothing pending holds the session any more: it is destroyed.
Alive == reads > 0 \/ writes # <<>> \/ handling # {}

Ended == ~ Alive /\ UNCHANGED vars

Next ==
    \/ ClientSends
    \/ ClientLeaves
    \/ OnRead
    \/ OnReadError
    \/ \E id \in handling : QueryAnswered(id) \/ QueryFailed(id)
    \/ OnWrite
    \/ OnWriteError
    \/ Timeout
    \/ Ended

\* A completion that is due runs, deadlines pass, and a query has one.  The
\* client owes nothing: it may neither send, nor read, nor leave.
Fairness ==
    /\ WF_vars(OnReadError)
    /\ WF_vars(OnWriteError)
    /\ WF_vars(Timeout)
    /\ \A id \in Ids : WF_vars(QueryFailed(id))

Spec == Init /\ [][Next]_vars
FairSpec == Spec /\ Fairness

----------------------------------------------------------------------------
\* Every variable has the values the code can give it.
TypeOK ==
    /\ requests \in Seq(Requests) /\ Len(requests) <= MaxRequests
    /\ peer \in {"open", "finished", "gone"}
    /\ taken \in 0..Len(requests)
    /\ reads \in Nat
    /\ handling \in SUBSET Ids
    /\ writes \in Seq(Replies)
    /\ socket \in {"open", "shut", "closed"}
    /\ received \in Seq(Ids)

\* At most one thing is pending on a session: the stream is never used by two
\* threads at once, though the query's callback writes from outside the strand.
OneOperation ==
    /\ reads <= 1 /\ Len(writes) <= 1
    /\ reads = 1 => writes = <<>> /\ handling = {}
    /\ writes # <<>> => handling = {}
    /\ \A i, j \in handling : i = j

\* The client's n-th reply answers its n-th request, pipelined or not
\* (tests/test_api/test_post_currencies.py:25 asserts the status of the reply to
\* the request just made).
RepliesInOrder == \A i \in DOMAIN received : received[i] = i

\* After the reply to a request that asked to close the connection nothing is
\* sent on it (OnWrite, need_eof).
NothingAfterClose ==
    \A i \in DOMAIN received :
      ~ requests[received[i]].keepAlive => i = Len(received)

\* A request is answered, or its connection is closed: no client waits for a
\* reply for ever on a connection that stays open.
Answered ==
    \A i \in Ids :
      Len(requests) >= i ~>
        \/ Len(received) >= i
        \/ socket # "open" \/ peer = "gone" \/ ~ Alive

\* A session does not outlive its client: when no more requests come (there are
\* at most MaxRequests) it ends, though the client may neither close nor read.
SessionEnds == <>(~ Alive)
============================================================================
