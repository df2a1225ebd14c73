------------------------------ MODULE Filters ------------------------------
(* HTTP filters: how MakeRouterAndHttpFilterCtxsMap (engine/src/http_server/ *)
(* server_builder.cpp) links the configured filters of each handler into a   *)
(* chain of contexts, and how a request goes through the chain               *)
(* (http_filter.cpp, http_filter_context.cpp, http_filter_ctxs_map.cpp,      *)
(* http_handler.cpp, exceptions_handler.cpp).                                *)
(*                                                                           *)
(* Filters are code of the engine's user.  One either answers a request or   *)
(* passes it on before it returns, by Next or straight to the handler, and   *)
(* may throw or do nothing.  A context does not change once it is made, so   *)
(* that requests do not meet here and one at a time is enough.               *)
EXTENDS Naturals, Sequences, SequencesExt

CONSTANTS Handlers,        \* the http-handlers of the configuration
          Known,           \* handlers and filters the factories know
          FilterNames,     \* the filters that may be configured
          MaxFilters,      \* bound on the filters of one handler
          None             \* no handler

ASSUME NoneAssumption == None \notin Handlers
ASSUME MaxFiltersAssumption == MaxFilters \in Nat

VARIABLES
    config,      \* filters_ of each handler, in the order of the configuration
    phase,       \* building, serving, failed (the start has thrown)
    todo,        \* handlers that are still to be made
    current,     \* the handler being made
    left,        \* its filters without a context
    prev,        \* prev_filter_ctx: a context, or 0
    contexts,    \* the filter contexts, in the order they were made
    ctxs_map,    \* filters_by_handler_: the contexts of each handler
    request,     \* the handler the request in progress was found for
    stack,       \* the Process calls it is in, the innermost last
    ran,         \* the filters it has been through
    handled,     \* the handlers it has reached
    result       \* what has become of it

building == <<phase, todo, current, left, prev, contexts, ctxs_map>>
serving == <<request, stack, ran, handled, result>>
vars == <<config, building, serving>>

Chains == BoundedSeq(FilterNames, MaxFilters)
Contexts == [filter : FilterNames, next : Nat, handler : Handlers]
\* ctx: the context of a filter, 0 for the handler.  done: what it did with
\* the request: nothing, passed, answered.
Frames == [ctx : Nat, done : {"nothing", "passed", "answered"}]
\* replies: calls of Send.  closed: Close was called.  pending: the handler
\* waits for a query.  dropped: a filter did nothing.  skipped: one called the
\* handler itself.  late: one threw after it, or one behind it, had answered.
Results == [replies : Nat, closed : BOOLEAN, pending : BOOLEAN,
            dropped : BOOLEAN, skipped : BOOLEAN, late : BOOLEAN]
NoResult == [replies |-> 0, closed |-> FALSE, pending |-> FALSE,
             dropped |-> FALSE, skipped |-> FALSE, late |-> FALSE]

Init ==
    /\ config \in [Handlers -> Chains]
    /\ phase = "building"
    /\ todo = Handlers
    /\ current = None
    /\ left = <<>>
    /\ prev = 0
    /\ contexts = <<>>
    /\ ctxs_map = [h \in Handlers |-> <<>>]
    /\ request = None
    /\ stack = <<>>
    /\ ran = <<>>
    /\ handled = <<>>
    /\ result = NoResult

----------------------------------------------------------------------------
(* The start.                                                                *)

\* The handlers come in the order of an unordered map.
MakeHandler(h) ==
    /\ phase = "building" /\ current = None /\ h \in todo /\ h \in Known
    /\ todo' = todo \ {h}
    /\ current' = h
    /\ left' = config[h]
    /\ prev' = 0
    /\ UNCHANGED <<config, phase, contexts, ctxs_map, serving>>

AddFront(h, ctx) == ctxs_map' = [ctxs_map EXCEPT ![h] = <<ctx>> \o @]

\* Mutant: the configured filters are gone through from the first to the last.
MakeContextForward ==
    /\ phase = "building" /\ left # <<>> /\ Head(left) \in Known
    /\ contexts' = Append(contexts,
         [filter |-> Head(left), next |-> prev, handler |-> current])
    /\ prev' = Len(contexts')
    /\ AddFront(current, prev')
    /\ left' = Tail(left)
    /\ UNCHANGED <<config, phase, todo, current, serving>>

\* Mutant: prev_filter_ctx is set before the context is given its next one.
MakeContextOfItself ==
    /\ phase = "building" /\ left # <<>> /\ Last(left) \in Known
    /\ prev' = Len(contexts) + 1
    /\ contexts' = Append(contexts,
         [filter |-> Last(left), next |-> prev', handler |-> current])
    /\ AddFront(current, prev')
    /\ left' = Front(left)
    /\ UNCHANGED <<config, phase, todo, current, serving>>

\* FillFilterCtxsMap: from the last filter to the first.
MakeContext ==
    /\ phase = "building" /\ left # <<>> /\ Last(left) \in Known
    /\ contexts' = Append(contexts,
         [filter |-> Last(left), next |-> prev, handler |-> current])
    /\ prev' = Len(contexts')
    /\ AddFront(current, prev')
    /\ left' = Front(left)
    /\ UNCHANGED <<config, phase, todo, current, serving>>

ChainMade ==
    /\ phase = "building" /\ current # None /\ left = <<>>
    /\ current' = None
    /\ UNCHANGED <<config, phase, todo, left, prev, contexts, ctxs_map, serving>>

\* A factory does not know the name, a method is unknown, or a constructor
\* throws: no server is made.
BuildThrows ==
    /\ phase = "building" /\ (current = None => todo # {})
    /\ phase' = "failed"
    /\ UNCHANGED <<config, todo, current, left, prev, contexts, ctxs_map, serving>>

Built ==
    /\ phase = "building" /\ current = None /\ todo = {}
    /\ phase' = "serving"
    /\ UNCHANGED <<config, todo, current, left, prev, contexts, ctxs_map, serving>>

----------------------------------------------------------------------------
(* A request.                                                                *)

Depth == Len(stack)
Top == stack[Depth]
InFilter == phase = "serving" /\ stack # <<>> /\ Top.ctx # 0
InHandler == phase = "serving" /\ stack # <<>> /\ Top.ctx = 0
Below == SubSeq(stack, 1, Depth - 1)
TopDid(what) == Append(Below, [Top EXCEPT !.done = what])

\* HttpFilterBase::Process.
CallFilter(calls, ctx) ==
    /\ stack' = Append(calls, [ctx |-> ctx, done |-> "nothing"])
    /\ ran' = Append(ran, contexts[ctx].filter)
    /\ UNCHANGED handled

\* HttpHandlerBase::Process.
CallHandler(calls, handler) ==
    /\ stack' = Append(calls, [ctx |-> 0, done |-> "nothing"])
    /\ handled' = Append(handled, handler)
    /\ UNCHANGED ran

\* RequestHandler: the route is found, and its filters are looked up.
Route(h) ==
    /\ phase = "serving" /\ request = None
    /\ request' = h
    /\ IF ctxs_map[h] # <<>> THEN CallFilter(<<>>, Head(ctxs_map[h]))
                             ELSE CallHandler(<<>>, h)
    /\ UNCHANGED <<config, building, result>>

\* Mutant: the handler is called with or without another filter.
NextAndHandler ==
    /\ InFilter /\ Top.done = "nothing"
    /\ LET ctx == contexts[Top.ctx] IN
         /\ handled' = Append(handled, ctx.handler)
         /\ stack' = TopDid("passed") \o <<[ctx |-> 0, done |-> "nothing"]>>
              \o IF ctx.next # 0 THEN <<[ctx |-> ctx.next, done |-> "nothing"]>>
                                 ELSE <<>>
         /\ ran' = ran \o IF ctx.next # 0 THEN <<contexts[ctx.next].filter>>
                                          ELSE <<>>
    /\ UNCHANGED <<config, building, request, result>>

\* HttpFilterContextImpl::Next.
NextFilter ==
    /\ InFilter /\ Top.done = "nothing"
    /\ LET ctx == contexts[Top.ctx] IN
         IF ctx.next # 0 THEN CallFilter(TopDid("passed"), ctx.next)
                         ELSE CallHandler(TopDid("passed"), ctx.handler)
    /\ UNCHANGED <<config, building, request, result>>

\* HttpFilterContextImpl::HandleRequest: past the filters behind.
HandleRequest ==
    /\ InFilter /\ Top.done = "nothing"
    /\ CallHandler(TopDid("passed"), contexts[Top.ctx].handler)
    /\ result' = [result EXCEPT !.skipped = TRUE]
    /\ UNCHANGED <<config, building, request>>

\* A filter or the handler sends the reply.
Send ==
    /\ phase = "serving" /\ stack # <<>> /\ Top.done = "nothing"
    /\ stack' = TopDid("answered")
    /\ result' = [result EXCEPT !.replies = @ + 1]
    /\ UNCHANGED <<config, building, request, ran, handled>>

\* The handler leaves the reply to the callback of a query.
SendQuery ==
    /\ InHandler /\ Top.done = "nothing"
    /\ stack' = TopDid("answered")
    /\ result' = [result EXCEPT !.pending = TRUE]
    /\ UNCHANGED <<config, building, request, ran, handled>>

\* A handler returns when it has answered, a filter also without.
Return ==
    /\ phase = "serving" /\ stack # <<>>
    /\ Top.ctx = 0 => Top.done = "answered"
    /\ stack' = Below
    /\ result' = [result EXCEPT !.dropped = @ \/ Top.done = "nothing"]
    /\ UNCHANGED <<config, building, request, ran, handled>>

Answered == result.replies > 0 \/ result.closed \/ result.pending

\* Mutant: exceptions that are not std::exceptions are ignored.
ThrowIgnored ==
    /\ phase = "serving" /\ stack # <<>>
    /\ stack' = Below
    /\ result' \in {[result EXCEPT !.replies = @ + 1, !.late = @ \/ Answered],
                    [result EXCEPT !.late = @ \/ Answered]}
    /\ UNCHANGED <<config, building, request, ran, handled>>

\* A filter or the handler throws: its Process catches the exception, which is
\* answered, or ends in Close, and the filters that passed the request on go on.
Throw ==
    /\ phase = "serving" /\ stack # <<>>
    /\ stack' = Below
    /\ result' \in {[result EXCEPT !.replies = @ + 1, !.late = @ \/ Answered],
                    [result EXCEPT !.closed = TRUE, !.late = @ \/ Answered]}
    /\ UNCHANGED <<config, building, request, ran, handled>>

\* RequestHandler returns to the session.
RequestEnds ==
    /\ phase = "serving" /\ request # None /\ stack = <<>>
    /\ request' = None
    /\ ran' = <<>> /\ handled' = <<>> /\ result' = NoResult
    /\ UNCHANGED <<config, building, stack>>

Ended == phase = "failed" /\ UNCHANGED vars

Next ==
    \/ \E h \in Handlers : MakeHandler(h) \/ Route(h)
    \/ MakeContext \/ ChainMade \/ BuildThrows \/ Built
    \/ NextFilter \/ HandleRequest \/ Send \/ SendQuery \/ Return \/ Throw
    \/ RequestEnds \/ Ended

Spec == Init /\ [][Next]_vars

----------------------------------------------------------------------------
\* Every variable has the values the code can give it; links lead to contexts.
TypeOK ==
    /\ config \in [Handlers -> Chains]
    /\ phase \in {"building", "serving", "failed"}
    /\ todo \subseteq Handlers
    /\ current \in Handlers \cup {None}
    /\ left \in Chains
    /\ prev \in 0..Len(contexts)
    /\ contexts \in Seq(Contexts)
    /\ \A i \in DOMAIN contexts : contexts[i].next < i
    /\ \A h \in Handlers : ctxs_map[h] \in Seq(DOMAIN contexts)
    /\ request \in Handlers \cup {None}
    /\ stack \in Seq(Frames)
    /\ \A i \in DOMAIN stack : stack[i].ctx \in 0..Len(contexts)
    /\ ran \in Seq(FilterNames)
    /\ handled \in Seq(Handlers)
    /\ result \in Results

\* A request goes through the filters of the handler it is for, in the order
\* of the configuration, though the chain is built from its end
\* (server_builder.cpp:28), and then to that handler, once: never to another
\* one, and never past a filter unless a filter calls the handler itself.
FiltersInOrder ==
    /\ request # None => IsPrefix(ran, config[request])
    /\ handled # <<>> => /\ handled = <<request>>
                         /\ ran = config[request] \/ result.skipped

\* A request is answered, closed or left to a query once at most, unless code
\* behind the answer throws.
AnsweredOnce ==
    result.late \/
      result.replies + (IF result.closed THEN 1 ELSE 0)
                     + (IF result.pending THEN 1 ELSE 0) <= 1

\* Whatever throws, no request is forgotten: at its end it has been answered,
\* closed, left to a query, or dropped by a filter that did nothing with it.
NoneForgotten ==
    request # None /\ stack = <<>> => Answered \/ result.dropped
============================================================================
