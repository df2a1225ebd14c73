-------------------------- MODULE HttpSessionProofs --------------------------
(* A session whose handlers send one reply each keeps requests and replies   *)
(* together, for any number of requests.                                     *)
(*                                                                           *)
(* The properties are proved from one inductive invariant, IInv: what is     *)
(* pending says how many of the requests read have been answered (Pending),  *)
(* and after a reply that closes nothing is pending (ClosedIsOver).          *)
EXTENDS HttpSession, SequenceTheorems, TLAPS

\* Every request read is answered, but the one whose query or write is pending.
Pending ==
    /\ Len(received) <= taken
    /\ reads = 1 => Len(received) = taken
    /\ \A id \in handling : id = taken /\ Len(received) + 1 = taken
    /\ writes # <<>> => /\ Len(received) + 1 = taken
                        /\ writes[1].to = taken
                        /\ writes[1].close = ~ requests[taken].keepAlive

ClosedIsOver ==
    \A i \in DOMAIN received :
      ~ requests[i].keepAlive => i = Len(received) /\ ~ Alive

\* Every handler but that of POST /currencies replies once.
OneReplyEach == "postCurrency" \notin Kinds

IInv == TypeOK /\ OneOperation /\ Pending /\ RepliesInOrder /\ ClosedIsOver
----------------------------------------------------------------------------
\* One reply, when no write is pending, is the only one.
LEMMA SendOne ==
  ASSUME TypeOK, writes = <<>>, NEW id \in 1..Len(requests), Send(id, 1)
  PROVE  /\ writes' \in Seq(Replies)
         /\ Len(writes') = 1
         /\ writes'[1] = [to |-> id, close |-> ~ requests[id].keepAlive]
<1> DEFINE reply == [to |-> id, close |-> ~ requests[id].keepAlive]
<1>1. reply \in Replies
  <2>1. id \in Ids
    BY MaxRequestsAssumption DEF TypeOK, Ids
  <2>2. (~ requests[id].keepAlive) \in BOOLEAN
    OBVIOUS
  <2> QED
    BY <2>1, <2>2 DEF Replies
<1>2. [i \in 1..1 |-> [to |-> id, close |-> i = 1 /\ ~ requests[id].keepAlive]]
        = <<reply>>
  OBVIOUS
<1>3. writes' = <<>> \o <<reply>>
  BY <1>2 DEF Send
<1> HIDE DEF reply
<1>4. writes' = <<reply>>
  BY <1>3
<1>5. writes' \in Seq(Replies) /\ Len(writes') = 1 /\ writes'[1] = reply
  BY <1>1, <1>4
<1> QED
  BY <1>5 DEF reply
----------------------------------------------------------------------------
\* A write is the one pending operation.
LEMMA OneWrite ==
  ASSUME TypeOK, OneOperation, writes # <<>>
  PROVE  reads = 0 /\ handling = {} /\ Len(writes) = 1
<1> DEFINE n == Len(writes)
<1>1. n \in Nat \ {0}
  BY EmptySeq DEF TypeOK
<1>2. n <= 1 /\ reads <= 1 /\ reads \in Nat
  BY DEF TypeOK, OneOperation
<1>3. reads # 1 /\ handling = {}
  BY DEF OneOperation
<1> HIDE DEF n
<1>4. n = 1
  BY <1>1, <1>2
<1>5. reads = 0
  BY <1>2, <1>3
<1> QED
  BY <1>3, <1>4, <1>5 DEF n

LEMMA InitIInv == Init => IInv
<1> SUFFICES ASSUME Init PROVE IInv
  OBVIOUS
<1>1. TypeOK
  BY MaxRequestsAssumption DEF Init, TypeOK, Ids, Requests, Replies
<1>2. OneOperation /\ Pending /\ RepliesInOrder /\ ClosedIsOver
  BY DEF Init, OneOperation, Pending, RepliesInOrder, ClosedIsOver
<1> QED
  BY <1>1, <1>2 DEF IInv

\* Requests only grow at their end, where nothing has been read.
LEMMA ClientSendsIInv == IInv /\ ClientSends => IInv'
<1> SUFFICES ASSUME IInv, ClientSends PROVE IInv'
  OBVIOUS
<1> USE DEF IInv
<1>1. PICK r \in Requests : requests' = Append(requests, r)
  BY DEF ClientSends
<1>2. UNCHANGED <<peer, received, taken, reads, handling, writes, socket>>
  BY DEF ClientSends, sessionVars
<1>3. /\ requests' \in Seq(Requests)
      /\ Len(requests') = Len(requests) + 1
      /\ \A i \in 1..Len(requests) : requests'[i] = requests[i]
  BY <1>1 DEF TypeOK
<1>4. TypeOK'
  <2>1. Len(requests) \in Nat /\ Len(requests) < MaxRequests
    BY DEF TypeOK, ClientSends
  <2>2. Len(requests') <= MaxRequests /\ taken' \in 0..Len(requests')
    BY <1>2, <1>3, <2>1, MaxRequestsAssumption DEF TypeOK
  <2> QED
    BY <1>2, <1>3, <2>2 DEF TypeOK
<1>5. OneOperation'
  BY <1>2 DEF OneOperation
<1>6. writes # <<>> => taken \in 1..Len(requests)
  BY DEF Pending, TypeOK
<1>7. Pending'
  BY <1>2, <1>3, <1>6 DEF Pending
<1>8. RepliesInOrder'
  BY <1>2 DEF RepliesInOrder
<1>9. Alive' = Alive
  BY <1>2 DEF Alive
<1>10. \A i \in DOMAIN received : requests'[i] = requests[i]
  BY <1>3 DEF TypeOK, Pending
<1>11. ClosedIsOver'
  BY <1>2, <1>9, <1>10 DEF ClosedIsOver
<1> QED
  BY <1>4, <1>5, <1>7, <1>8, <1>11

\* Neither the client's leaving nor a deadline touches what is pending.
LEMMA StreamIInv ==
  IInv /\ (ClientLeaves \/ Timeout \/ UNCHANGED vars) => IInv'
<1> SUFFICES ASSUME IInv, ClientLeaves \/ Timeout \/ UNCHANGED vars
             PROVE  IInv'
  OBVIOUS
<1> USE DEF IInv
<1>1. UNCHANGED <<requests, received, taken, reads, handling, writes>>
  BY DEF ClientLeaves, Timeout, vars, sessionVars
<1>2. peer' \in {"open", "finished", "gone"} /\ socket' \in {"open", "shut", "closed"}
  BY DEF ClientLeaves, Timeout, vars, sessionVars, TypeOK
<1>3. TypeOK'
  BY <1>1, <1>2 DEF TypeOK
<1>4. (OneOperation /\ Pending /\ RepliesInOrder /\ ClosedIsOver)'
  BY <1>1 DEF OneOperation, Pending, RepliesInOrder, ClosedIsOver, Alive
<1> QED
  BY <1>3, <1>4

\* The read is the one pending operation, and the handler leaves at most one.
LEMMA OnReadIInv == IInv /\ OnRead => IInv'
<1> SUFFICES ASSUME IInv, OnRead PROVE IInv'
  OBVIOUS
<1> USE DEF IInv
<1> DEFINE id == taken + 1
<1>1. /\ id \in 1..Len(requests) /\ id \in Ids
      /\ taken' = id /\ reads = 1 /\ reads' = 0
      /\ UNCHANGED <<requests, peer, received>>
  BY MaxRequestsAssumption DEF OnRead, OneOperation, TypeOK, Ids
<1>2. writes = <<>> /\ handling = {} /\ Len(received) = taken
  BY <1>1 DEF OneOperation, Pending
<1>3. Handle(id)
  BY DEF OnRead
<1>4. /\ handling' # {} => handling' = {id} /\ writes' = <<>>
      /\ socket' \in {"open", "shut", "closed"}
      /\ writes' \in Seq(Replies)
      /\ \/ writes' = <<>>
         \/ Len(writes') = 1 /\ writes'[1] = [to |-> id, close |-> ~ requests[id].keepAlive]
  <2>1. CASE Process(id)
    <3>1. Send(id, 1) /\ UNCHANGED <<handling, socket>>
      BY <2>1 DEF Process
    <3>2. /\ writes' \in Seq(Replies)
          /\ Len(writes') = 1
          /\ writes'[1] = [to |-> id, close |-> ~ requests[id].keepAlive]
      BY <1>1, <1>2, <3>1, SendOne
    <3>3. handling' = {} /\ socket' = socket
      BY <1>2, <3>1
    <3> QED
      BY <3>2, <3>3 DEF TypeOK
  <2>2. CASE ReportUnkownError(id)
    <3>1. writes' = <<>> /\ handling' = {} /\ socket' = "shut"
      BY <1>2, <2>2 DEF ReportUnkownError
    <3> QED
      BY <3>1
  <2>3. CASE SendQuery(id)
    <3>1. writes' = <<>> /\ handling' = {id} /\ socket' = socket
      BY <1>2, <2>3 DEF SendQuery
    <3> QED
      BY <3>1 DEF TypeOK
  <2> QED
    BY <1>3, <2>1, <2>2, <2>3 DEF Handle
<1>5. TypeOK'
  BY <1>1, <1>4 DEF TypeOK
<1>6. OneOperation'
  <2>1. reads' <= 1 /\ reads' # 1
    BY <1>1
  <2> DEFINE n == Len(writes')
  <2>4. n \in {0, 1}
    BY <1>4
  <2> HIDE DEF n
  <2>5. n <= 1
    BY <2>4
  <2>2. writes' # <<>> => handling' = {}
    BY <1>4
  <2>3. \A i, j \in handling' : i = j
    BY <1>4
  <2> QED
    BY <2>1, <2>2, <2>3, <2>5 DEF OneOperation, n
<1>7. Pending'
  <2>1. Len(received') + 1 = taken' /\ Len(received') <= taken' /\ reads' # 1
    BY <1>1, <1>2 DEF TypeOK
  <2>2. \A i \in handling' : i = taken'
    BY <1>1, <1>4
  <2>3. writes' # <<>> => /\ writes'[1].to = taken'
                          /\ writes'[1].close = ~ requests'[taken'].keepAlive
    BY <1>1, <1>4
  <2> QED
    BY <2>1, <2>2, <2>3 DEF Pending
<1>8. RepliesInOrder'
  BY <1>1 DEF RepliesInOrder
<1>9. Alive
  BY <1>1 DEF Alive
<1>10. ClosedIsOver'
  BY <1>1, <1>9 DEF ClosedIsOver
<1> QED
  BY <1>5, <1>6, <1>7, <1>8, <1>10

LEMMA OnReadErrorIInv == IInv /\ OnReadError => IInv'
<1> SUFFICES ASSUME IInv, OnReadError PROVE IInv'
  OBVIOUS
<1> USE DEF IInv
<1>1. /\ reads = 1 /\ reads' = 0
      /\ UNCHANGED <<requests, peer, received, taken, handling, writes>>
      /\ socket' \in {"open", "shut", "closed"}
  BY DEF OnReadError, OneOperation, TypeOK
<1>2. TypeOK'
  BY <1>1 DEF TypeOK
<1>3. (OneOperation /\ Pending /\ RepliesInOrder)'
  BY <1>1 DEF OneOperation, Pending, RepliesInOrder
<1>4. ClosedIsOver'
  BY <1>1 DEF ClosedIsOver, Alive
<1> QED
  BY <1>2, <1>3, <1>4

\* The callback of the query replaces it by one write.
LEMMA QueryEndsIInv ==
  ASSUME OneReplyEach, IInv, NEW id \in handling,
         QueryAnswered(id) \/ QueryFailed(id)
  PROVE  IInv'
<1> USE DEF IInv
<1>1. /\ handling = {id} /\ id = taken /\ id \in 1..Len(requests)
      /\ reads = 0 /\ writes = <<>> /\ Len(received) + 1 = taken
  BY DEF OneOperation, Pending, TypeOK
<1>2. requests[id].kind # "postCurrency"
  <2>1. requests[id] \in Requests
    BY <1>1 DEF TypeOK
  <2> QED
    BY <2>1 DEF Requests, OneReplyEach
<1>3. /\ handling' = {} /\ Send(id, 1)
      /\ UNCHANGED <<requests, peer, received, taken, reads, socket>>
  BY <1>1, <1>2 DEF QueryAnswered, QueryFailed, QueryEnds
<1>4. /\ writes' \in Seq(Replies)
      /\ Len(writes') = 1
      /\ writes'[1] = [to |-> id, close |-> ~ requests[id].keepAlive]
  BY <1>1, <1>3, SendOne
<1>5. TypeOK'
  BY <1>3, <1>4 DEF TypeOK
<1>6. OneOperation'
  BY <1>1, <1>3, <1>4 DEF OneOperation
<1>7. Pending'
  BY <1>1, <1>3, <1>4 DEF Pending, TypeOK
<1>8. RepliesInOrder'
  BY <1>3 DEF RepliesInOrder
<1>9. ClosedIsOver'
  BY <1>3 DEF ClosedIsOver, Alive
<1> QED
  BY <1>5, <1>6, <1>7, <1>8, <1>9

\* What OnWrite and OnWriteError have in common when the reply has arrived.
LEMMA Received ==
  ASSUME IInv, writes # <<>>, received' = Append(received, Head(writes).to),
         writes' = Tail(writes), reads' \in {0, 1},
         Head(writes).close => reads' = 0,
         UNCHANGED <<requests, peer, taken, handling>>,
         socket' \in {"open", "shut", "closed"}
  PROVE  IInv'
<1> USE DEF IInv
<1>1. /\ Len(writes) = 1 /\ reads = 0 /\ handling = {}
      /\ Len(received) + 1 = taken /\ taken \in 1..Len(requests)
  <2>1. Len(writes) = 1 /\ reads = 0 /\ handling = {}
    BY OneWrite
  <2>2. Len(received) + 1 = taken
    BY DEF Pending
  <2>3. taken \in 0..Len(requests) /\ Len(received) \in Nat
    BY DEF TypeOK
  <2> QED
    BY <2>1, <2>2, <2>3
<1>2. /\ Head(writes).to = taken
      /\ Head(writes).close = ~ requests[taken].keepAlive
  BY <1>1 DEF Pending, TypeOK
<1>3. writes' = <<>>
  BY <1>1 DEF TypeOK
<1>4. /\ Len(received') = taken
      /\ DOMAIN received' = 1..taken
      /\ received'[taken] = taken
      /\ \A i \in 1..Len(received) : received'[i] = received[i]
  BY <1>1, <1>2 DEF TypeOK
<1>5. taken \in Ids
  BY <1>1, MaxRequestsAssumption DEF TypeOK, Ids
<1>6. received' \in Seq(Ids)
  BY <1>2, <1>5 DEF TypeOK
<1>7. TypeOK'
  BY <1>3, <1>6 DEF TypeOK
<1>8. OneOperation'
  BY <1>1, <1>3 DEF OneOperation
<1>9. Pending'
  BY <1>1, <1>3, <1>4 DEF Pending
<1>10. RepliesInOrder'
  BY <1>1, <1>4 DEF RepliesInOrder, TypeOK
<1>11. Alive
  BY DEF Alive
<1>12. ~ requests[taken].keepAlive => ~ Alive'
  <2> SUFFICES ASSUME ~ requests[taken].keepAlive PROVE ~ Alive'
    OBVIOUS
  <2>1. Head(writes).close
    BY <1>2
  <2> QED
    BY <1>1, <1>3, <2>1 DEF Alive
<1>13. \A i \in DOMAIN received : requests[i].keepAlive
  BY <1>11 DEF ClosedIsOver
<1>14. \A i \in DOMAIN received' : i \in DOMAIN received \/ i = taken
  BY <1>1, <1>4 DEF TypeOK
<1>15. ClosedIsOver'
  BY <1>4, <1>12, <1>13, <1>14 DEF ClosedIsOver
<1> QED
  BY <1>7, <1>8, <1>9, <1>10, <1>15

LEMMA OnWriteIInv == IInv /\ OnWrite => IInv'
<1> SUFFICES ASSUME IInv, OnWrite PROVE IInv'
  OBVIOUS
<1>1. reads = 0
  BY DEF IInv, OneOperation, TypeOK, OnWrite
<1>2. /\ writes # <<>> /\ received' = Append(received, Head(writes).to)
      /\ writes' = Tail(writes)
      /\ UNCHANGED <<requests, peer, taken, handling>>
  BY DEF OnWrite
<1>3. /\ reads' \in {0, 1} /\ socket' \in {"open", "shut", "closed"}
      /\ Head(writes).close => reads' = 0
  BY <1>1 DEF OnWrite, IInv, TypeOK
<1> QED
  BY <1>2, <1>3, Received

LEMMA OnWriteErrorIInv == IInv /\ OnWriteError => IInv'
<1> SUFFICES ASSUME IInv, OnWriteError PROVE IInv'
  OBVIOUS
<1>1. /\ writes # <<>> /\ writes' = Tail(writes)
      /\ UNCHANGED <<requests, peer, taken, reads, handling, socket>>
      /\ received' = received \/ received' = Append(received, Head(writes).to)
  BY DEF OnWriteError
<1>2. reads = 0 /\ handling = {} /\ Len(writes) = 1
  BY <1>1, OneWrite DEF IInv
<1>3. socket' \in {"open", "shut", "closed"}
  BY <1>1 DEF IInv, TypeOK
<1>4. CASE received' = Append(received, Head(writes).to)
  <2>1. reads' \in {0, 1} /\ reads' = 0
    BY <1>1, <1>2
  <2> QED
    BY <1>1, <1>3, <1>4, <2>1, Received
<1>5. CASE received' = received
  <2> USE DEF IInv
  <2>1. writes' = <<>>
    BY <1>1, <1>2 DEF TypeOK
  <2>2. TypeOK'
    BY <1>1, <1>5, <2>1 DEF TypeOK
  <2>3. (OneOperation /\ Pending /\ RepliesInOrder)'
    BY <1>1, <1>2, <1>5, <2>1 DEF OneOperation, Pending, RepliesInOrder
  <2>4. ClosedIsOver'
    BY <1>1, <1>2, <1>5, <2>1 DEF ClosedIsOver, Alive
  <2> QED
    BY <2>2, <2>3, <2>4
<1> QED
  BY <1>1, <1>4, <1>5

LEMMA NextIInv == ASSUME OneReplyEach PROVE IInv /\ [Next]_vars => IInv'
<1> SUFFICES ASSUME IInv, [Next]_vars PROVE IInv'
  OBVIOUS
<1>1. CASE ClientSends
  BY <1>1, ClientSendsIInv
<1>2. CASE ClientLeaves \/ Timeout \/ Ended \/ UNCHANGED vars
  BY <1>2, StreamIInv DEF Ended
<1>3. CASE OnRead
  BY <1>3, OnReadIInv
<1>4. CASE OnReadError
  BY <1>4, OnReadErrorIInv
<1>5. CASE \E id \in handling : QueryAnswered(id) \/ QueryFailed(id)
  BY <1>5, QueryEndsIInv
<1>6. CASE OnWrite
  BY <1>6, OnWriteIInv
<1>7. CASE OnWriteError
  BY <1>7, OnWriteErrorIInv
<1> QED
  BY <1>1, <1>2, <1>3, <1>4, <1>5, <1>6, <1>7 DEF Next

THEOREM Invariance == ASSUME OneReplyEach PROVE Spec => []IInv
<1>1. Init => IInv
  BY InitIInv
<1>2. IInv /\ [Next]_vars => IInv'
  BY NextIInv
<1> QED
  BY <1>1, <1>2, PTL DEF Spec
----------------------------------------------------------------------------
\* The type invariant, for every number of requests.
THEOREM TypeCorrect == ASSUME OneReplyEach PROVE Spec => []TypeOK
<1>1. IInv => TypeOK
  BY DEF IInv
<1> QED
  BY <1>1, Invariance, PTL

\* A read, a write or a query is pending on the stream, never two of them.
THEOREM SingleOperation == ASSUME OneReplyEach PROVE Spec => []OneOperation
<1>1. IInv => OneOperation
  BY DEF IInv
<1> QED
  BY <1>1, Invariance, PTL

\* The n-th reply answers the n-th request, however many are pipelined.
THEOREM OrderedReplies == ASSUME OneReplyEach PROVE Spec => []RepliesInOrder
<1>1. IInv => RepliesInOrder
  BY DEF IInv
<1> QED
  BY <1>1, Invariance, PTL

\* Nothing is sent after the reply that closes the connection.
THEOREM SilentAfterClose == ASSUME OneReplyEach PROVE Spec => []NothingAfterClose
<1>1. IInv => NothingAfterClose
  BY DEF IInv, RepliesInOrder, ClosedIsOver, NothingAfterClose
<1> QED
  BY <1>1, Invariance, PTL
============================================================================
