--------------------------- MODULE FiltersProofs ---------------------------
(* For every configuration of handlers and filters: a request goes through   *)
(* the filters of its handler in their order, and is answered once and not   *)
(* forgotten.                                                                *)
(*                                                                           *)
(* Two invariants of two phases meet.  The chains that the start makes spell *)
(* the configuration, also while they are half made (ChainsMade and          *)
(* ChainInMaking); a request that goes from one context to the next is       *)
(* therefore where OnItsWay says: each Process call it is in is that of its  *)
(* place in the chain, and only the innermost has not passed it on.          *)
EXTENDS Filters, SequenceTheorems, TLAPS

\* The contexts of h spell the last of its filters, and each leads to the next.
Linked(h) ==
    LET chain == ctxs_map[h] IN
    /\ Len(chain) <= Len(config[h])
    /\ \A i \in 1..Len(chain) :
         contexts[chain[i]] =
           [filter |-> config[h][Len(config[h]) - Len(chain) + i],
            next |-> IF i = Len(chain) THEN 0 ELSE chain[i + 1],
            handler |-> h]

ChainsMade ==
    /\ \A h \in Handlers : Linked(h)
    /\ \A h \in todo : ctxs_map[h] = <<>>
    /\ \A h \in Handlers \ todo :
         h # current => Len(ctxs_map[h]) = Len(config[h])
    /\ phase = "serving" => todo = {} /\ current = None

\* What is left of the filters of a handler is what its chain does not spell.
ChainInMaking ==
    /\ current = None => left = <<>>
    /\ current # None =>
         /\ current \notin todo
         /\ Len(left) + Len(ctxs_map[current]) = Len(config[current])
         /\ \A i \in 1..Len(left) : left[i] = config[current][i]
         /\ prev = IF ctxs_map[current] = <<>> THEN 0 ELSE ctxs_map[current][1]

NotRequested ==
    /\ phase # "serving" => request = None
    /\ request = None => /\ stack = <<>> /\ ran = <<>> /\ handled = <<>>
                         /\ result = NoResult

RanInOrder == /\ Len(ran) <= Len(config[request])
              /\ \A i \in 1..Len(ran) : ran[i] = config[request][i]

HandledLast ==
    handled # <<>> => /\ handled = <<request>>
                      /\ Len(ran) = Len(config[request]) \/ result.skipped

\* Call i is of the filter at place i of the chain, or the last and the handler's.
CallsFollowChain ==
    \A i \in 1..Depth :
      /\ stack[i].ctx # 0 => /\ i <= Len(ctxs_map[request])
                             /\ stack[i].ctx = ctxs_map[request][i]
      /\ i < Depth => stack[i].ctx # 0 /\ stack[i].done = "passed"

\* As long as the innermost call has done nothing, nobody has answered,
InnermostIsFirst ==
    stack # <<>> /\ Top.done = "nothing" =>
      /\ ~ Answered
      /\ Top.ctx # 0 => Len(ran) = Depth /\ handled = <<>>

\* and when it has, or has returned, something has become of the request.
SomethingBecame ==
    stack = <<>> \/ Top.done # "nothing" => Answered \/ result.dropped

\* Where a request is.
OnItsWay == request # None => /\ RanInOrder /\ HandledLast /\ CallsFollowChain
                              /\ InnermostIsFirst /\ SomethingBecame

BuildTypeOK ==
    /\ config \in [Handlers -> Chains]
    /\ phase \in {"building", "serving", "failed"}
    /\ todo \subseteq Handlers
    /\ current \in Handlers \cup {None}
    /\ left \in Chains
    /\ prev \in 0..Len(contexts)
    /\ contexts \in Seq(Contexts)
    /\ \A i \in DOMAIN contexts : contexts[i].next < i
    /\ ctxs_map \in [Handlers -> Seq(Nat)]
    /\ \A h \in Handlers : ctxs_map[h] \in Seq(DOMAIN contexts)

ServeTypeOK ==
    /\ request \in Handlers \cup {None}
    /\ stack \in Seq(Frames)
    /\ \A i \in DOMAIN stack : stack[i].ctx \in 0..Len(contexts)
    /\ ran \in Seq(FilterNames)
    /\ handled \in Seq(Handlers)
    /\ result \in Results

BuildInv == BuildTypeOK /\ ChainsMade /\ ChainInMaking
ServeInv == ServeTypeOK /\ NotRequested /\ OnItsWay /\ AnsweredOnce

IInv == BuildInv /\ ServeInv
----------------------------------------------------------------------------
(* Sequences.                                                                *)

LEMMA ChainIsSeq ==
  ASSUME NEW chain \in Chains
  PROVE  /\ chain \in Seq(FilterNames)
         /\ Len(chain) \in Nat /\ Len(chain) <= MaxFilters
<1>1. PICK m \in 0..MaxFilters : chain \in [1..m -> FilterNames]
  BY DEF Chains, BoundedSeq, SeqOf
<1>2. m \in Nat /\ m <= MaxFilters
  BY <1>1
<1>3. chain \in Seq(FilterNames)
  BY <1>1, <1>2, SeqDef
<1>4. Len(chain) = m
  BY <1>1, <1>2, <1>3
<1> QED
  BY <1>2, <1>3, <1>4

LEMMA SeqIsChain ==
  ASSUME NEW chain \in Seq(FilterNames), Len(chain) <= MaxFilters
  PROVE  chain \in Chains
<1>1. Len(chain) \in Nat /\ chain \in [1..Len(chain) -> FilterNames]
  BY LenProperties
<1>2. Len(chain) \in 0..MaxFilters
  BY <1>1
<1> QED
  BY <1>1, <1>2 DEF Chains, BoundedSeq, SeqOf

LEMMA FrontAndLast ==
  ASSUME NEW S, NEW s \in Seq(S), s # <<>>
  PROVE  /\ Len(s) \in Nat \ {0}
         /\ Front(s) \in Seq(S) /\ Len(Front(s)) = Len(s) - 1
         /\ \A i \in 1..Len(s) - 1 : Front(s)[i] = s[i]
         /\ Last(s) = s[Len(s)] /\ Last(s) \in S
<1>1. Len(s) \in Nat \ {0} /\ \A i \in 1..Len(s) : s[i] \in S
  BY EmptySeq, ElementOfSeq
<1>2. /\ SubSeq(s, 1, Len(s) - 1) \in Seq(S)
      /\ Len(SubSeq(s, 1, Len(s) - 1)) = Len(s) - 1
      /\ \A i \in 1..Len(s) - 1 : SubSeq(s, 1, Len(s) - 1)[i] = s[i]
  <2> DEFINE n == Len(s) - 1
  <2>1. n \in Nat /\ n \in Int /\ \A i \in 1..n : s[i] \in S
    BY <1>1
  <2> HIDE DEF n
  <2>2. /\ SubSeq(s, 1, n) \in Seq(S)
        /\ Len(SubSeq(s, 1, n)) = IF 1 <= n THEN n - 1 + 1 ELSE 0
        /\ \A i \in 1..(n - 1 + 1) : SubSeq(s, 1, n)[i] = s[1 + i - 1]
    BY <2>1, SubSeqProperties
  <2>3. /\ Len(SubSeq(s, 1, n)) = n
        /\ \A i \in 1..n : SubSeq(s, 1, n)[i] = s[i]
    <3>1. n - 1 + 1 = n /\ (1 <= n \/ n = 0)
      BY <2>1
    <3>2. Len(SubSeq(s, 1, n)) = n
      BY <2>2, <3>1
    <3>3. ASSUME NEW i \in 1..n PROVE SubSeq(s, 1, n)[i] = s[i]
      <4>1. i \in 1..(n - 1 + 1) /\ 1 + i - 1 = i
        BY <2>1, <3>1
      <4> QED
        BY <2>2, <4>1
    <3> QED
      BY <3>2, <3>3
  <2> QED
    BY <2>2, <2>3 DEF n
<1> QED
  BY <1>1, <1>2 DEF Front, Last

LEMMA SubSeqIsFunction ==
  ASSUME NEW S, NEW s \in Seq(S), NEW n \in Nat, n <= Len(s)
  PROVE  SubSeq(s, 1, n) = [i \in 1..n |-> s[i]]
<1>1. n \in Int /\ \A i \in 1..n : s[i] \in S
  OBVIOUS
<1>2. /\ SubSeq(s, 1, n) \in Seq(S)
      /\ Len(SubSeq(s, 1, n)) = IF 1 <= n THEN n - 1 + 1 ELSE 0
      /\ \A i \in 1..(n - 1 + 1) : SubSeq(s, 1, n)[i] = s[1 + i - 1]
  BY <1>1, SubSeqProperties
<1>3. Len(SubSeq(s, 1, n)) = n /\ \A i \in 1..n : SubSeq(s, 1, n)[i] = s[i]
  <2>1. n - 1 + 1 = n /\ (1 <= n \/ n = 0) /\ \A i \in 1..n : 1 + i - 1 = i
    OBVIOUS
  <2> QED
    BY <1>2, <2>1
<1> QED
  BY <1>2, <1>3, LenProperties

LEMMA InFront ==
  ASSUME NEW S, NEW s \in Seq(S), NEW e \in S
  PROVE  /\ <<e>> \o s \in Seq(S) /\ Len(<<e>> \o s) = Len(s) + 1
         /\ (<<e>> \o s)[1] = e
         /\ \A i \in 1..Len(s) : (<<e>> \o s)[i + 1] = s[i]
<1>1. <<e>> \in Seq(S) /\ Len(<<e>>) = 1 /\ <<e>>[1] = e /\ Len(s) \in Nat
  OBVIOUS
<1> DEFINE t == <<e>>
<1>2. t \in Seq(S) /\ Len(t) = 1 /\ t[1] = e
  BY <1>1
<1> HIDE DEF t
<1>3. /\ t \o s \in Seq(S)
      /\ Len(t \o s) = Len(t) + Len(s)
      /\ \A i \in 1 .. Len(t) + Len(s) : (t \o s)[i] =
                     IF i <= Len(t) THEN t[i] ELSE s[i - Len(t)]
  BY <1>2, ConcatProperties
<1>4. /\ t \o s \in Seq(S) /\ Len(t \o s) = Len(s) + 1
      /\ (t \o s)[1] = e
      /\ \A i \in 1..Len(s) : (t \o s)[i + 1] = s[i]
  BY <1>1, <1>2, <1>3
<1> QED
  BY <1>4 DEF t
----------------------------------------------------------------------------
(* The start.                                                                *)

LEMMA InitIInv == Init => IInv
<1> SUFFICES ASSUME Init PROVE IInv
  OBVIOUS
<1>1. <<>> \in Chains
  <2>1. <<>> \in Seq(FilterNames) /\ Len(<<>>) = 0
    OBVIOUS
  <2>2. Len(<<>>) <= MaxFilters
    BY <2>1, MaxFiltersAssumption
  <2> QED
    BY <2>1, <2>2, SeqIsChain
<1> USE DEF Init
<1>2. BuildTypeOK
  BY <1>1 DEF BuildTypeOK
<1>3. ASSUME NEW h \in Handlers PROVE Linked(h)
  <2>1. Len(config[h]) \in Nat /\ ctxs_map[h] = <<>>
    BY ChainIsSeq
  <2> QED
    BY <2>1 DEF Linked
<1>4. ChainsMade /\ ChainInMaking
  BY <1>3 DEF ChainsMade, ChainInMaking
<1>5. ServeTypeOK /\ AnsweredOnce
  BY DEF ServeTypeOK, NoResult, Results, AnsweredOnce
<1>6. NotRequested /\ OnItsWay
  BY DEF NotRequested, OnItsWay
<1> QED
  BY <1>2, <1>4, <1>5, <1>6 DEF IInv, BuildInv, ServeInv

\* While the server is being built no request is served.
LEMMA BuildingServes ==
  ASSUME IInv, UNCHANGED serving, phase = "building", BuildInv'
  PROVE  IInv'
<1> USE DEF serving
<1>1. request = None /\ stack = <<>> /\ ran = <<>> /\ handled = <<>>
      /\ result = NoResult
  BY DEF IInv, ServeInv, NotRequested
<1>2. ServeTypeOK'
  BY <1>1 DEF IInv, ServeInv, ServeTypeOK
<1>3. NotRequested' /\ OnItsWay'
  BY <1>1 DEF NotRequested, OnItsWay
<1>4. AnsweredOnce'
  BY DEF IInv, ServeInv, AnsweredOnce
<1> QED
  BY <1>2, <1>3, <1>4 DEF IInv, ServeInv

LEMMA MakeHandlerKeeps ==
  ASSUME IInv, NEW h \in Handlers, MakeHandler(h)
  PROVE  IInv'
<1> USE DEF IInv, BuildInv, MakeHandler
<1>1. BuildTypeOK'
  BY ChainIsSeq DEF BuildTypeOK
<1>2. h # None /\ ctxs_map[h] = <<>> /\ left' = config[h]
  BY NoneAssumption DEF ChainsMade
<1>3. Len(config[h]) \in Nat
  BY ChainIsSeq DEF BuildTypeOK
<1>4. ChainInMaking'
  BY <1>2, <1>3 DEF ChainInMaking
<1>5. \A other \in Handlers : Linked(other)'
  BY DEF ChainsMade, Linked
<1>6. ChainsMade'
  BY <1>2, <1>5, NoneAssumption DEF ChainsMade, BuildTypeOK
<1> QED
  BY <1>1, <1>4, <1>6, BuildingServes

\* The chain of the current handler grows at its front, by the last filter that
\* is left; the contexts that were there stay.
LEMMA MakeContextKeeps ==
  ASSUME IInv, MakeContext
  PROVE  IInv'
<1> USE DEF IInv, BuildInv
<1>0. PICK h \in Handlers : h = current
  BY DEF MakeContext, BuildTypeOK, ChainInMaking
<1> DEFINE chain == ctxs_map[h]
           new == Len(contexts) + 1
           ctx == [filter |-> Last(left), next |-> prev, handler |-> h]
           longer == <<new>> \o chain
<1>1. /\ h = current /\ h # None /\ left # <<>>
      /\ left \in Seq(FilterNames) /\ Len(left) \in Nat \ {0}
      /\ config[h] \in Seq(FilterNames) /\ Len(config[h]) \in Nat
      /\ Len(left) <= MaxFilters
  <2>1. left # <<>> /\ h # None
    BY NoneAssumption DEF MakeContext
  <2> QED
    BY <1>0, <2>1, ChainIsSeq, EmptySeq DEF BuildTypeOK
<1>2. /\ Front(left) \in Seq(FilterNames) /\ Len(Front(left)) = Len(left) - 1
      /\ \A i \in 1..Len(left) - 1 : Front(left)[i] = left[i]
      /\ Last(left) = left[Len(left)] /\ Last(left) \in FilterNames
  BY <1>1, FrontAndLast
<1>3. Len(contexts) \in Nat /\ new \in Nat \ {0} /\ DOMAIN contexts = 1..Len(contexts)
      /\ prev \in Nat /\ prev < new
  BY DEF BuildTypeOK
<1>4. ctx \in Contexts
  BY <1>1, <1>2, <1>3 DEF Contexts
<1>5. /\ contexts' \in Seq(Contexts) /\ Len(contexts') = new
      /\ \A i \in 1..Len(contexts) : contexts'[i] = contexts[i]
      /\ contexts'[new] = ctx /\ DOMAIN contexts' = 1..new
  <2>1. contexts' = Append(contexts, ctx) /\ contexts \in Seq(Contexts)
    BY <1>0 DEF MakeContext, BuildTypeOK
  <2> HIDE DEF ctx
  <2>2. /\ contexts' \in Seq(Contexts) /\ Len(contexts') = Len(contexts) + 1
        /\ \A i \in 1..Len(contexts) : contexts'[i] = contexts[i]
        /\ contexts'[Len(contexts) + 1] = ctx
    BY <1>4, <2>1, AppendProperties
  <2> QED
    BY <2>2, LenProperties
<1>6. chain \in Seq(1..Len(contexts)) /\ Len(chain) \in Nat
      /\ \A i \in 1..Len(chain) : chain[i] \in 1..Len(contexts)
  BY <1>1, <1>3, ElementOfSeq DEF BuildTypeOK
<1>7. /\ longer \in Seq(1..new) /\ Len(longer) = Len(chain) + 1
      /\ longer[1] = new
      /\ \A i \in 1..Len(chain) : longer[i + 1] = chain[i]
  <2>1. 1..Len(contexts) \subseteq 1..new /\ new \in 1..new
    BY <1>3
  <2>2. chain \in Seq(1..new)
    BY <1>6, <2>1, SeqMonotonic
  <2> HIDE DEF new, chain
  <2> QED
    BY <2>1, <2>2, InFront
<1>8. /\ prev' = new /\ ctxs_map' = [ctxs_map EXCEPT ![h] = longer]
      /\ left' = Front(left)
      /\ UNCHANGED <<config, phase, todo, current, serving>> /\ phase = "building"
  BY <1>0, <1>5 DEF MakeContext, AddFront
<1>9. ctxs_map'[h] = longer
      /\ \A other \in Handlers \ {h} : ctxs_map'[other] = ctxs_map[other]
  BY <1>1, <1>8 DEF BuildTypeOK
<1> HIDE DEF chain, new, ctx, longer
<1>10. BuildTypeOK'
  <2>1. left' \in Chains
    <3>1. Front(left) \in Seq(FilterNames) /\ Len(Front(left)) <= MaxFilters
      BY <1>1, <1>2, MaxFiltersAssumption
    <3> QED
      BY <1>8, <3>1, SeqIsChain
  <2>2. \A i \in DOMAIN contexts' : contexts'[i].next < i
    <3>1. contexts'[new].next < new
      BY <1>3, <1>5 DEF ctx
    <3>2. ASSUME NEW i \in 1..new, i # new PROVE contexts'[i].next < i
      <4>1. i \in 1..Len(contexts)
        BY <1>3, <3>2 DEF new
      <4> QED
        BY <1>3, <1>5, <4>1 DEF BuildTypeOK
    <3> QED
      BY <1>5, <3>1, <3>2
  <2>3. 1..new \subseteq Nat /\ 1..Len(contexts) \subseteq 1..new
    BY <1>3 DEF new
  <2>4. \A other \in Handlers : ctxs_map'[other] \in Seq(DOMAIN contexts')
    <3>1. ASSUME NEW other \in Handlers \ {h}
          PROVE  ctxs_map'[other] \in Seq(DOMAIN contexts')
      <4>1. ctxs_map[other] \in Seq(1..Len(contexts))
        BY <1>3 DEF BuildTypeOK
      <4>2. ctxs_map[other] \in Seq(1..new)
        BY <2>3, <4>1, SeqMonotonic
      <4> QED
        BY <1>5, <1>9, <4>2
    <3> QED
      BY <1>5, <1>7, <1>9, <3>1
  <2>5. ctxs_map' \in [Handlers -> Seq(Nat)]
    <3>1. longer \in Seq(Nat)
      BY <1>7, <2>3, SeqMonotonic
    <3> QED
      BY <1>8, <3>1 DEF BuildTypeOK
  <2>6. prev' \in 0..Len(contexts')
    BY <1>3, <1>5, <1>8
  <2> QED
    BY <1>5, <1>8, <2>1, <2>2, <2>4, <2>5, <2>6 DEF BuildTypeOK
<1>11. /\ Len(left) + Len(chain) = Len(config[h])
       /\ \A i \in 1..Len(left) : left[i] = config[h][i]
       /\ prev = IF chain = <<>> THEN 0 ELSE chain[1]
       /\ h \notin todo
  BY <1>1 DEF ChainInMaking, chain
<1>12. ChainInMaking'
  <2>1. Len(left') + Len(longer) = Len(config[h])
    <3>1. Len(left') = Len(left) - 1 /\ Len(longer) = Len(chain) + 1
      BY <1>2, <1>7, <1>8
    <3>2. \A m, n \in Nat : (m - 1) + (n + 1) = m + n
      OBVIOUS
    <3> QED
      BY <1>1, <1>6, <1>11, <3>1, <3>2
  <2>2. \A i \in 1..Len(left') : left'[i] = config[h][i]
    BY <1>1, <1>2, <1>8, <1>11
  <2>3. longer # <<>>
    BY <1>6, <1>7
  <2> QED
    BY <1>1, <1>7, <1>8, <1>9, <1>11, <2>1, <2>2, <2>3 DEF ChainInMaking
<1>13. ASSUME NEW other \in Handlers \ {h} PROVE Linked(other)'
  <2>1. \A i \in 1..Len(ctxs_map[other]) :
          contexts'[ctxs_map[other][i]] = contexts[ctxs_map[other][i]]
    BY <1>3, <1>5, ElementOfSeq DEF BuildTypeOK
  <2>2. Linked(other)
    BY DEF ChainsMade
  <2>3. config' = config /\ ctxs_map'[other] = ctxs_map[other]
    BY <1>8, <1>9
  <2> QED
    BY <2>1, <2>2, <2>3 DEF Linked
<1>14. Linked(h)'
  <2> DEFINE first == Len(config[h]) - Len(longer)
  <2>1. Len(longer) <= Len(config[h]) /\ first + 1 = Len(left)
    BY <1>1, <1>6, <1>7, <1>11
  <2>2. \A i \in 1..Len(chain) :
          /\ contexts'[chain[i]] = contexts[chain[i]]
          /\ contexts[chain[i]] =
               [filter |-> config[h][Len(config[h]) - Len(chain) + i],
                next |-> IF i = Len(chain) THEN 0 ELSE chain[i + 1],
                handler |-> h]
    BY <1>1, <1>5, <1>6 DEF ChainsMade, Linked, chain
  <2>3. ASSUME NEW i \in 1..Len(longer)
        PROVE  contexts'[longer[i]] =
                 [filter |-> config[h][first + i],
                  next |-> IF i = Len(longer) THEN 0 ELSE longer[i + 1],
                  handler |-> h]
    <3>1. CASE i = 1
      <4>1. Last(left) = config[h][first + i]
        BY <1>1, <1>2, <1>11, <2>1, <3>1
      <4>2. prev = IF i = Len(longer) THEN 0 ELSE longer[i + 1]
        <5>1. CASE Len(chain) = 0
          BY <1>6, <1>7, <1>11, <3>1, <5>1
        <5>2. CASE Len(chain) # 0
          <6>1. 1 \in 1..Len(chain) /\ chain # <<>> /\ Len(longer) # 1
            BY <1>6, <1>7, <5>2
          <6> QED
            BY <1>7, <1>11, <3>1, <6>1
        <5> QED
          BY <5>1, <5>2
      <4> QED
        BY <1>5, <1>7, <3>1, <4>1, <4>2 DEF ctx
    <3>2. CASE i # 1
      <4> DEFINE j == i - 1
      <4>1. j \in 1..Len(chain) /\ i = j + 1
        BY <1>6, <1>7, <3>2
      <4>2. longer[i] = chain[j]
        BY <1>7, <4>1
      <4>3. first + i = Len(config[h]) - Len(chain) + j
        BY <1>1, <1>6, <1>7, <4>1
      <4>4. i = Len(longer) <=> j = Len(chain)
        BY <1>6, <1>7, <4>1
      <4>5. j # Len(chain) => longer[i + 1] = chain[j + 1]
        <5> SUFFICES ASSUME j # Len(chain) PROVE longer[i + 1] = chain[j + 1]
          OBVIOUS
        <5>1. j + 1 \in 1..Len(chain) /\ i + 1 = (j + 1) + 1
          BY <1>6, <4>1
        <5> QED
          BY <1>7, <5>1
      <4> HIDE DEF j, first
      <4> QED
        BY <2>2, <4>1, <4>2, <4>3, <4>4, <4>5
    <3> QED
      BY <3>1, <3>2
  <2>4. config' = config /\ ctxs_map'[h] = longer
    BY <1>8, <1>9
  <2> QED
    BY <2>1, <2>3, <2>4 DEF Linked
<1>15. ChainsMade'
  <2>1. \A other \in Handlers : Linked(other)'
    BY <1>13, <1>14
  <2> QED
    BY <1>1, <1>8, <1>9, <1>11, <2>1 DEF ChainsMade, BuildTypeOK
<1> QED
  BY <1>8, <1>10, <1>12, <1>15, BuildingServes

LEMMA ChainMadeKeeps ==
  ASSUME IInv, ChainMade
  PROVE  IInv'
<1> USE DEF IInv, BuildInv, ChainMade
<1>1. PICK h \in Handlers : h = current
  BY DEF BuildTypeOK
<1>2. Len(ctxs_map[h]) = Len(config[h]) /\ h \notin todo
  <2>1. Len(left) + Len(ctxs_map[h]) = Len(config[h]) /\ Len(left) = 0
        /\ Len(ctxs_map[h]) \in Nat /\ h \notin todo
    BY <1>1, EmptySeq DEF ChainInMaking, BuildTypeOK
  <2> QED
    BY <2>1
<1>3. \A other \in Handlers : Linked(other)'
  BY DEF ChainsMade, Linked
<1>4. ChainsMade'
  BY <1>1, <1>2, <1>3 DEF ChainsMade
<1>5. BuildTypeOK' /\ ChainInMaking'
  BY DEF BuildTypeOK, ChainInMaking
<1> QED
  BY <1>4, <1>5, BuildingServes

LEMMA BuildEndsKeeps ==
  ASSUME IInv, BuildThrows \/ Built
  PROVE  IInv'
<1> USE DEF IInv, BuildInv, BuildThrows, Built
<1>1. \A other \in Handlers : Linked(other)'
  BY DEF ChainsMade, Linked
<1>2. BuildTypeOK' /\ ChainsMade' /\ ChainInMaking'
  BY <1>1 DEF BuildTypeOK, ChainsMade, ChainInMaking
<1> QED
  BY <1>2, BuildingServes
----------------------------------------------------------------------------
(* A request.                                                                *)

\* Nothing that happens to a request changes the chains.
LEMMA ChainsStay ==
  ASSUME BuildInv, UNCHANGED <<config, building>>
  PROVE  BuildInv'
BY DEF building, BuildInv, BuildTypeOK, ChainsMade, Linked, ChainInMaking

\* What the chain of a handler says while requests are served.
Spelled(h) ==
    /\ config[h] \in Seq(FilterNames) /\ Len(config[h]) \in Nat
    /\ Len(ctxs_map[h]) = Len(config[h])
    /\ \A i \in 1..Len(config[h]) :
         /\ ctxs_map[h][i] \in 1..Len(contexts)
         /\ contexts[ctxs_map[h][i]] =
              [filter |-> config[h][i],
               next |-> IF i = Len(config[h]) THEN 0 ELSE ctxs_map[h][i + 1],
               handler |-> h]

LEMMA ChainSpells ==
  ASSUME BuildInv, phase = "serving", NEW h \in Handlers
  PROVE  Spelled(h)
<1>1. config[h] \in Seq(FilterNames) /\ Len(config[h]) \in Nat
  BY ChainIsSeq DEF BuildInv, BuildTypeOK
<1>2. Len(ctxs_map[h]) = Len(config[h]) /\ Linked(h)
  BY NoneAssumption DEF BuildInv, ChainsMade
<1>3. ctxs_map[h] \in Seq(1..Len(contexts))
  BY DEF BuildInv, BuildTypeOK
<1> QED
  <2>1. \A i \in 1..Len(config[h]) : ctxs_map[h][i] \in 1..Len(contexts)
    BY <1>2, <1>3, ElementOfSeq
  <2>2. \A i \in 1..Len(config[h]) : Len(config[h]) - Len(config[h]) + i = i
    BY <1>1
  <2> QED
    BY <1>1, <1>2, <2>1, <2>2 DEF Linked, Spelled

LEMMA ChainIsSpelled ==
  ASSUME IInv, phase = "serving", NEW h \in Handlers
  PROVE  /\ config[h] \in Seq(FilterNames) /\ Len(config[h]) \in Nat
         /\ Len(ctxs_map[h]) = Len(config[h])
         /\ \A i \in 1..Len(config[h]) :
              /\ ctxs_map[h][i] \in 1..Len(contexts)
              /\ contexts[ctxs_map[h][i]].filter = config[h][i]
              /\ contexts[ctxs_map[h][i]].handler = h
<1>1. Spelled(h)
  BY ChainSpells DEF IInv
<1>2. ASSUME NEW i \in 1..Len(config[h])
      PROVE  /\ ctxs_map[h][i] \in 1..Len(contexts)
             /\ contexts[ctxs_map[h][i]].filter = config[h][i]
             /\ contexts[ctxs_map[h][i]].handler = h
  <2> DEFINE next == IF i = Len(config[h]) THEN 0 ELSE ctxs_map[h][i + 1]
  <2>1. /\ ctxs_map[h][i] \in 1..Len(contexts)
        /\ contexts[ctxs_map[h][i]] =
             [filter |-> config[h][i], next |-> next, handler |-> h]
    BY <1>1 DEF Spelled
  <2> HIDE DEF next
  <2> QED
    BY <2>1
<1> QED
  BY <1>1, <1>2 DEF Spelled

LEMMA InnerCall ==
  ASSUME ServeTypeOK, stack # <<>>
  PROVE  /\ Depth \in Nat \ {0} /\ Top \in Frames
         /\ Below \in Seq(Frames) /\ Len(Below) = Depth - 1
         /\ \A i \in 1..Depth - 1 : Below[i] = stack[i]
<1>1. stack \in Seq(Frames)
  BY DEF ServeTypeOK
<1> QED
  BY <1>1, FrontAndLast DEF Below, Front, Last, Depth, Top

LEMMA TopDidIt ==
  ASSUME ServeTypeOK, stack # <<>>, NEW what \in {"passed", "answered"}
  PROVE  /\ TopDid(what) \in Seq(Frames) /\ Len(TopDid(what)) = Depth
         /\ \A i \in 1..Depth - 1 : TopDid(what)[i] = stack[i]
         /\ TopDid(what)[Depth].ctx = Top.ctx
         /\ TopDid(what)[Depth].done = what
<1> DEFINE new == [Top EXCEPT !.done = what]
<1>1. new \in Frames /\ new.ctx = Top.ctx /\ new.done = what
  BY InnerCall DEF Frames
<1>2. TopDid(what) = Append(Below, new)
  BY DEF TopDid
<1> HIDE DEF new
<1>3. /\ Append(Below, new) \in Seq(Frames)
      /\ Len(Append(Below, new)) = Len(Below) + 1
      /\ \A i \in 1..Len(Below) : Append(Below, new)[i] = Below[i]
      /\ Append(Below, new)[Len(Below) + 1] = new
  BY <1>1, InnerCall, AppendProperties
<1>4. Len(Below) = Depth - 1 /\ Len(Below) + 1 = Depth
      /\ \A i \in 1..Depth - 1 : Below[i] = stack[i]
  BY InnerCall
<1> QED
  BY <1>1, <1>2, <1>3, <1>4

\* The innermost call has answered or has returned; the others had passed the
\* request on.
LEMMA InnermostDone ==
  ASSUME IInv, phase = "serving", stack # <<>>,
         stack' = Below \/ stack' = TopDid("answered"),
         UNCHANGED <<config, building, request, ran, handled>>,
         result' \in Results, result'.skipped = result.skipped,
         (Answered \/ result.dropped)', AnsweredOnce'
  PROVE  IInv'
<1> USE DEF IInv, ServeInv
<1>1. BuildInv' /\ UNCHANGED <<contexts, ctxs_map, phase>>
  BY ChainsStay DEF building
<1>2. request # None /\ request \in Handlers
  BY DEF NotRequested, ServeTypeOK
<1>3. /\ Depth \in Nat \ {0} /\ stack' \in Seq(Frames)
      /\ Len(stack') \in {Depth - 1, Depth} /\ Len(stack') \in Nat
      /\ \A i \in 1..Depth - 1 : stack'[i] = stack[i]
      /\ Len(stack') = Depth => /\ stack'[Depth].ctx = Top.ctx
                                /\ stack'[Depth].done = "answered"
  <2>1. Depth \in Nat \ {0}
    BY InnerCall
  <2>2. CASE stack' = Below
    <3>1. Len(stack') = Depth - 1 /\ stack' \in Seq(Frames)
          /\ \A i \in 1..Depth - 1 : stack'[i] = stack[i]
      BY <2>2, InnerCall
    <3> QED
      BY <2>1, <3>1
  <2>3. CASE stack' = TopDid("answered")
    <3>1. /\ stack' \in Seq(Frames) /\ Len(stack') = Depth
          /\ \A i \in 1..Depth - 1 : stack'[i] = stack[i]
          /\ stack'[Depth].ctx = Top.ctx
          /\ stack'[Depth].done = "answered"
      BY <2>3, TopDidIt
    <3> QED
      BY <2>1, <3>1
  <2> QED
    BY <2>2, <2>3
<1>4. \A i \in 1..Len(stack') :
        /\ i \in 1..Depth /\ stack'[i].ctx = stack[i].ctx
        /\ stack'[i].done = IF i < Depth THEN "passed" ELSE "answered"
  <2> SUFFICES ASSUME NEW i \in 1..Len(stack')
               PROVE  /\ i \in 1..Depth /\ stack'[i].ctx = stack[i].ctx
                      /\ stack'[i].done = IF i < Depth THEN "passed" ELSE "answered"
    OBVIOUS
  <2>1. i \in 1..Depth /\ (i \in 1..Depth - 1 \/ (i = Depth /\ Len(stack') = Depth))
    BY <1>3
  <2>2. CASE i \in 1..Depth - 1
    <3>1. i < Depth /\ stack[i].done = "passed"
      BY <1>2, <1>3, <2>1, <2>2 DEF OnItsWay, CallsFollowChain
    <3> QED
      BY <1>3, <2>1, <2>2, <3>1
  <2>3. CASE i = Depth /\ Len(stack') = Depth
    BY <1>3, <2>1, <2>3 DEF Top
  <2> QED
    BY <2>1, <2>2, <2>3
<1>5. \A i \in 1..Len(stack') : i < Len(stack') => i < Depth
  BY <1>3
<1>6. CallsFollowChain'
  <2> SUFFICES ASSUME NEW i \in 1..Len(stack')
               PROVE  /\ stack'[i].ctx # 0 => /\ i <= Len(ctxs_map[request])
                                              /\ stack'[i].ctx = ctxs_map[request][i]
                      /\ i < Len(stack') => stack'[i].ctx # 0 /\ stack'[i].done = "passed"
    BY <1>1 DEF CallsFollowChain, Depth
  <2>1. i \in 1..Depth /\ (i < Len(stack') => i < Depth)
    BY <1>4, <1>5
  <2> QED
    BY <1>2, <1>4, <2>1 DEF OnItsWay, CallsFollowChain
<1>7. stack' # <<>> => Top'.done # "nothing"
  <2> SUFFICES ASSUME stack' # <<>> PROVE stack'[Len(stack')].done # "nothing"
    BY DEF Top, Depth
  <2>1. Len(stack') \in 1..Len(stack')
    BY <1>3, EmptySeq
  <2> QED
    BY <1>4, <2>1
<1>8. InnermostIsFirst' /\ SomethingBecame'
  BY <1>7 DEF InnermostIsFirst, SomethingBecame
<1>9. RanInOrder' /\ HandledLast'
  BY <1>2 DEF OnItsWay, RanInOrder, HandledLast
<1>10. ServeTypeOK'
  <2>1. \A i \in DOMAIN stack' : stack'[i].ctx \in 0..Len(contexts)
    <3>1. DOMAIN stack' = 1..Len(stack') /\ DOMAIN stack = 1..Depth
      BY <1>3, LenProperties DEF ServeTypeOK, Depth
    <3> QED
      BY <1>4, <3>1 DEF ServeTypeOK
  <2> QED
    BY <1>1, <1>3, <2>1 DEF ServeTypeOK
<1>11. NotRequested'
  BY <1>1, <1>2 DEF NotRequested
<1> QED
  BY <1>1, <1>6, <1>8, <1>9, <1>10, <1>11 DEF OnItsWay

\* A call is made by those that have all passed the request on, or by none.
InChain(calls, h) ==
    /\ calls \in Seq(Frames) /\ Len(calls) <= Len(config[h])
    /\ \A i \in 1..Len(calls) : /\ calls[i].ctx = ctxs_map[h][i]
                                /\ calls[i].done = "passed"

LEMMA FilterCalled ==
  ASSUME IInv, phase = "serving", NEW h \in Handlers, NEW calls, InChain(calls, h),
         Len(calls) < Len(config[h]), Len(ran) = Len(calls),
         \A i \in 1..Len(ran) : ran[i] = config[h][i],
         handled = <<>>, ~ Answered,
         CallFilter(calls, ctxs_map[h][Len(calls) + 1]),
         request' = h, UNCHANGED <<config, building, result>>
  PROVE  IInv'
<1> USE DEF IInv, ServeInv
<1> DEFINE next == Len(calls) + 1
           ctx == ctxs_map[h][next]
           frame == [ctx |-> ctx, done |-> "nothing"]
<1>0. /\ config[h] \in Seq(FilterNames) /\ Len(config[h]) \in Nat
      /\ Len(ctxs_map[h]) = Len(config[h])
      /\ \A i \in 1..Len(config[h]) :
           /\ ctxs_map[h][i] \in 1..Len(contexts)
           /\ contexts[ctxs_map[h][i]].filter = config[h][i]
           /\ contexts[ctxs_map[h][i]].handler = h
  BY ChainIsSpelled
<1>1. BuildInv' /\ UNCHANGED <<contexts, ctxs_map, phase>>
  BY ChainsStay DEF building
<1>2. Len(calls) \in Nat /\ next \in 1..Len(config[h]) /\ next \in Nat \ {0}
  BY <1>0 DEF InChain
<1>3. ctx \in 1..Len(contexts) /\ Len(contexts) \in Nat
      /\ contexts[ctx].filter = config[h][next] /\ config[h][next] \in FilterNames
      /\ Len(ctxs_map[h]) = Len(config[h])
  <2>1. /\ config[h] \in Seq(FilterNames) /\ Len(ctxs_map[h]) = Len(config[h])
        /\ ctx \in 1..Len(contexts)
        /\ contexts[ctx].filter = config[h][next]
    BY <1>2, <1>0
  <2>2. Len(contexts) \in Nat
    BY DEF BuildInv, BuildTypeOK
  <2> QED
    BY <1>2, <2>1, <2>2, ElementOfSeq
<1>4. frame \in Frames /\ frame.ctx = ctx /\ frame.done = "nothing"
  BY <1>3 DEF Frames
<1>5. /\ stack' \in Seq(Frames) /\ Len(stack') = next
      /\ \A i \in 1..Len(calls) : stack'[i] = calls[i]
      /\ stack'[next] = frame
  <2>1. stack' = Append(calls, frame)
    BY DEF CallFilter
  <2> HIDE DEF frame
  <2> QED
    BY <1>4, <2>1, AppendProperties DEF InChain
<1>6. /\ ran' \in Seq(FilterNames) /\ Len(ran') = next
      /\ \A i \in 1..Len(ran') : ran'[i] = config[h][i]
  <2> DEFINE name == config[h][next]
  <2>1. ran' = Append(ran, name) /\ ran \in Seq(FilterNames) /\ name \in FilterNames
    BY <1>3 DEF CallFilter, ServeTypeOK
  <2> HIDE DEF name
  <2>2. /\ ran' \in Seq(FilterNames) /\ Len(ran') = Len(ran) + 1
        /\ \A i \in 1..Len(ran) : ran'[i] = ran[i]
        /\ ran'[Len(ran) + 1] = name
    BY <2>1, AppendProperties
  <2>3. ASSUME NEW i \in 1..next PROVE ran'[i] = config[h][i]
    <3>1. i \in 1..Len(ran) \/ i = next
      BY <1>2, <2>3
    <3> QED
      BY <2>2, <3>1 DEF name
  <2> QED
    BY <2>2, <2>3
<1> HIDE DEF frame, ctx
<1>7. \A i \in 1..next : /\ i \in 1..Len(calls) \/ i = next
                         /\ stack'[i].ctx = ctxs_map[h][i]
                         /\ i <= Len(ctxs_map[h])
                         /\ i < next => stack'[i].done = "passed"
  <2> SUFFICES ASSUME NEW i \in 1..next
               PROVE  /\ i \in 1..Len(calls) \/ i = next
                      /\ stack'[i].ctx = ctxs_map[h][i]
                      /\ i <= Len(ctxs_map[h])
                      /\ i < next => stack'[i].done = "passed"
    OBVIOUS
  <2>1. (i \in 1..Len(calls) \/ i = next) /\ i <= Len(config[h])
        /\ (i < next => i \in 1..Len(calls))
    BY <1>2, <1>0
  <2> HIDE DEF next
  <2> QED
    BY <1>3, <1>4, <1>5, <2>1 DEF InChain, ctx
<1>8. \A i \in 1..next : stack'[i].ctx \in 1..Len(contexts)
  <2>1. \A i \in 1..next : i \in 1..Len(config[h])
    BY <1>2, <1>0
  <2> QED
    BY <1>7, <2>1, <1>0
<1>9. CallsFollowChain'
  <2>1. \A i \in 1..next : stack'[i].ctx # 0
    BY <1>3, <1>8
  <2> HIDE DEF next
  <2> QED
    BY <1>1, <1>5, <1>7, <2>1 DEF CallsFollowChain, Depth
<1> HIDE DEF next
<1>10. RanInOrder' /\ HandledLast' /\ InnermostIsFirst'
  BY <1>2, <1>5, <1>6, <1>0
     DEF RanInOrder, HandledLast, InnermostIsFirst, CallFilter, Answered, Depth
<1>11. stack' # <<>> /\ Top'.done = "nothing"
  BY <1>2, <1>4, <1>5 DEF Top, Depth
<1>12. ServeTypeOK'
  <2>1. DOMAIN stack' = 1..next
    BY <1>5, LenProperties
  <2>2. \A i \in DOMAIN stack' : stack'[i].ctx \in 0..Len(contexts)
    BY <1>3, <1>8, <2>1
  <2> QED
    BY <1>1, <1>5, <1>6, <2>2 DEF ServeTypeOK, CallFilter
<1>13. NotRequested' /\ AnsweredOnce'
  BY <1>1, NoneAssumption DEF NotRequested, AnsweredOnce
<1> QED
  BY <1>1, <1>9, <1>10, <1>11, <1>12, <1>13 DEF OnItsWay, SomethingBecame

LEMMA HandlerCalled ==
  ASSUME IInv, phase = "serving", NEW h \in Handlers, NEW calls, InChain(calls, h),
         Len(ran) <= Len(config[h]), \A i \in 1..Len(ran) : ran[i] = config[h][i],
         Len(ran) = Len(config[h]) \/ result'.skipped,
         CallHandler(calls, h), handled' = <<h>>,
         result' \in Results, ~ Answered', AnsweredOnce',
         request' = h, UNCHANGED <<config, building>>
  PROVE  IInv'
<1> USE DEF IInv, ServeInv
<1> DEFINE next == Len(calls) + 1
           frame == [ctx |-> 0, done |-> "nothing"]
<1>0. /\ config[h] \in Seq(FilterNames) /\ Len(config[h]) \in Nat
      /\ Len(ctxs_map[h]) = Len(config[h])
      /\ \A i \in 1..Len(config[h]) :
           /\ ctxs_map[h][i] \in 1..Len(contexts)
           /\ contexts[ctxs_map[h][i]].filter = config[h][i]
           /\ contexts[ctxs_map[h][i]].handler = h
  BY ChainIsSpelled
<1>1. BuildInv' /\ UNCHANGED <<contexts, ctxs_map, phase>>
  BY ChainsStay DEF building
<1>2. Len(calls) \in Nat /\ next \in Nat \ {0}
  BY DEF InChain
<1>3. frame \in Frames /\ frame.ctx = 0 /\ frame.done = "nothing"
  BY DEF Frames
<1>4. /\ stack' \in Seq(Frames) /\ Len(stack') = next
      /\ \A i \in 1..Len(calls) : stack'[i] = calls[i]
      /\ stack'[next] = frame
  <2>1. stack' = Append(calls, frame)
    BY DEF CallHandler
  <2> HIDE DEF frame
  <2> QED
    BY <1>3, <2>1, AppendProperties DEF InChain
<1> HIDE DEF frame
<1>5. \A i \in 1..next :
        \/ i = next /\ stack'[i].ctx = 0
        \/ /\ i \in 1..Len(calls) /\ i <= Len(ctxs_map[h])
           /\ stack'[i].ctx = ctxs_map[h][i] /\ stack'[i].ctx \in 1..Len(contexts)
           /\ stack'[i].done = "passed"
  <2> SUFFICES ASSUME NEW i \in 1..next, i # next
               PROVE  /\ i \in 1..Len(calls) /\ i <= Len(ctxs_map[h])
                      /\ stack'[i].ctx = ctxs_map[h][i]
                      /\ stack'[i].ctx \in 1..Len(contexts)
                      /\ stack'[i].done = "passed"
    BY <1>3, <1>4
  <2>1. i \in 1..Len(calls)
    BY <1>2
  <2>2. i \in 1..Len(config[h]) /\ Len(ctxs_map[h]) = Len(config[h])
    BY <2>1, <1>0 DEF InChain
  <2> QED
    BY <1>4, <2>1, <2>2, <1>0 DEF InChain
<1>6. Len(contexts) \in Nat
  BY DEF BuildInv, BuildTypeOK
<1>7. CallsFollowChain'
  <2>1. \A i \in 1..next : i < next => stack'[i].ctx # 0 /\ stack'[i].done = "passed"
    BY <1>2, <1>5, <1>6
  <2>2. \A i \in 1..next : stack'[i].ctx # 0 =>
          i <= Len(ctxs_map[h]) /\ stack'[i].ctx = ctxs_map[h][i]
    BY <1>5
  <2> HIDE DEF next
  <2> QED
    BY <1>1, <1>4, <2>1, <2>2 DEF CallsFollowChain, Depth
<1> HIDE DEF next
<1>8. RanInOrder' /\ HandledLast'
  BY DEF RanInOrder, HandledLast, CallHandler
<1>9. stack' # <<>> /\ Top'.done = "nothing" /\ Top'.ctx = 0
  BY <1>2, <1>3, <1>4 DEF Top, Depth
<1>10. ServeTypeOK'
  <2>1. DOMAIN stack' = 1..next
    BY <1>4, LenProperties
  <2>2. \A i \in DOMAIN stack' : stack'[i].ctx \in 0..Len(contexts)
    BY <1>5, <1>6, <2>1
  <2>3. handled' \in Seq(Handlers)
    OBVIOUS
  <2> QED
    BY <1>1, <1>4, <2>2, <2>3 DEF ServeTypeOK, CallHandler
<1>11. NotRequested'
  BY <1>1, NoneAssumption DEF NotRequested
<1> QED
  BY <1>1, <1>7, <1>8, <1>9, <1>10, <1>11
     DEF OnItsWay, InnermostIsFirst, SomethingBecame

LEMMA RouteKeeps ==
  ASSUME IInv, NEW h \in Handlers, Route(h)
  PROVE  IInv'
<1>1. /\ phase = "serving" /\ request' = h /\ UNCHANGED <<config, building, result>>
      /\ ran = <<>> /\ handled = <<>> /\ result = NoResult /\ ~ Answered
  BY DEF Route, IInv, ServeInv, NotRequested, NoResult, Answered
<1>2. InChain(<<>>, h) /\ Len(<<>>) = 0 /\ Len(config[h]) \in Nat
      /\ Len(ctxs_map[h]) = Len(config[h])
  BY <1>1, ChainSpells DEF InChain, IInv, Spelled
<1>3. CASE ctxs_map[h] # <<>>
  <2>1. Len(ctxs_map[h]) # 0 /\ Head(ctxs_map[h]) = ctxs_map[h][1]
    BY <1>3, EmptySeq DEF IInv, BuildInv, BuildTypeOK
  <2>2. CallFilter(<<>>, ctxs_map[h][Len(<<>>) + 1])
    BY <1>2, <1>3, <2>1 DEF Route
  <2>3. Len(<<>>) < Len(config[h]) /\ Len(ran) = Len(<<>>)
    BY <1>1, <1>2, <2>1
  <2>4. \A i \in 1..Len(ran) : ran[i] = config[h][i]
    BY <1>1, <1>2
  <2> QED
    BY <1>1, <1>2, <2>2, <2>3, <2>4, FilterCalled
<1>4. CASE ctxs_map[h] = <<>>
  <2>1. Len(config[h]) = 0 /\ Len(ran) = 0
    BY <1>1, <1>2, <1>4
  <2>2. CallHandler(<<>>, h) /\ handled' = <<h>>
    BY <1>1, <1>4 DEF Route, CallHandler
  <2>3. result' \in Results /\ ~ Answered' /\ AnsweredOnce'
    BY <1>1 DEF IInv, ServeInv, ServeTypeOK, Answered, AnsweredOnce
  <2>4. \A i \in 1..Len(ran) : ran[i] = config[h][i]
    BY <2>1
  <2> QED
    BY <1>1, <1>2, <2>1, <2>2, <2>3, <2>4, HandlerCalled
<1> QED
  BY <1>3, <1>4

\* A filter that has done nothing yet is the one at its place in the chain, and
\* those in front of it have passed the request on.
LEMMA InFilterKnows ==
  ASSUME IInv, InFilter, Top.done = "nothing"
  PROVE  /\ request \in Handlers /\ request # None /\ phase = "serving"
         /\ Depth \in 1..Len(config[request])
         /\ Top.ctx = ctxs_map[request][Depth]
         /\ InChain(TopDid("passed"), request) /\ Len(TopDid("passed")) = Depth
         /\ Len(ran) = Depth /\ RanInOrder
         /\ handled = <<>> /\ ~ Answered
<1> USE DEF IInv, ServeInv
<1>1. request \in Handlers /\ request # None /\ phase = "serving" /\ stack # <<>>
      /\ Top.ctx # 0
  BY DEF InFilter, NotRequested, ServeTypeOK
<1>2. Depth \in Nat \ {0} /\ Depth \in 1..Depth
  BY <1>1, InnerCall
<1>3. /\ CallsFollowChain /\ RanInOrder /\ ~ Answered
      /\ Len(ran) = Depth /\ handled = <<>>
  BY <1>1 DEF OnItsWay, InnermostIsFirst
<1>4. /\ Len(ctxs_map[request]) = Len(config[request])
      /\ Len(config[request]) \in Nat
  BY <1>1, ChainIsSpelled
<1>5. Top.ctx = ctxs_map[request][Depth] /\ Depth \in 1..Len(config[request])
  BY <1>1, <1>2, <1>3, <1>4 DEF CallsFollowChain, Top
<1> DEFINE calls == TopDid("passed")
<1>6. /\ calls \in Seq(Frames) /\ Len(calls) = Depth
      /\ \A i \in 1..Depth - 1 : calls[i] = stack[i]
      /\ calls[Depth].ctx = Top.ctx /\ calls[Depth].done = "passed"
  BY <1>1, TopDidIt
<1> HIDE DEF calls
<1>7. ASSUME NEW i \in 1..Depth
      PROVE  calls[i].ctx = ctxs_map[request][i] /\ calls[i].done = "passed"
  <2>1. i \in 1..Depth - 1 \/ i = Depth
    BY <1>2
  <2>2. CASE i \in 1..Depth - 1
    <3>1. i < Depth /\ stack[i].ctx # 0
      BY <1>2, <1>3, <2>2 DEF CallsFollowChain
    <3> QED
      BY <1>3, <1>6, <2>2, <3>1 DEF CallsFollowChain
  <2> QED
    BY <1>5, <1>6, <2>1, <2>2
<1>8. InChain(calls, request)
  BY <1>5, <1>6, <1>7 DEF InChain
<1> QED
  BY <1>1, <1>3, <1>5, <1>6, <1>8 DEF calls

LEMMA NextFilterKeeps ==
  ASSUME IInv, NextFilter
  PROVE  IInv'
<1> DEFINE calls == TopDid("passed")
           next == contexts[Top.ctx].next
<1>1. InFilter /\ Top.done = "nothing" /\ UNCHANGED <<config, building, request, result>>
  BY DEF NextFilter
<1>2. /\ request \in Handlers /\ request # None /\ phase = "serving"
      /\ Depth \in 1..Len(config[request])
      /\ Top.ctx = ctxs_map[request][Depth]
      /\ InChain(calls, request) /\ Len(calls) = Depth
      /\ Len(ran) = Depth /\ RanInOrder
      /\ handled = <<>> /\ ~ Answered
  BY <1>1, InFilterKnows
<1>3. /\ Len(config[request]) \in Nat
      /\ \A i \in 1..Len(config[request]) : ctxs_map[request][i] \in 1..Len(contexts)
      /\ contexts[Top.ctx].handler = request
  BY <1>2, ChainIsSpelled
<1>4. next = IF Depth = Len(config[request]) THEN 0 ELSE ctxs_map[request][Depth + 1]
  <2>1. Spelled(request)
    BY <1>2, ChainSpells DEF IInv
  <2> DEFINE link == IF Depth = Len(config[request]) THEN 0
                     ELSE ctxs_map[request][Depth + 1]
  <2>2. contexts[Top.ctx] =
          [filter |-> config[request][Depth], next |-> link, handler |-> request]
    BY <1>2, <2>1 DEF Spelled
  <2> HIDE DEF link
  <2>3. next = link
    BY <2>2
  <2> QED
    BY <2>3 DEF link
<1> HIDE DEF calls
<1>5. CASE next # 0
  <2>1. CallFilter(calls, next)
    BY <1>5 DEF NextFilter, calls
  <2> HIDE DEF next
  <2>2. Depth < Len(config[request]) /\ next = ctxs_map[request][Len(calls) + 1]
    BY <1>2, <1>3, <1>4, <1>5
  <2> QED
    BY <1>1, <1>2, <2>1, <2>2, FilterCalled DEF RanInOrder
<1>6. CASE next = 0
  <2>1. CallHandler(calls, request)
    BY <1>3, <1>6 DEF NextFilter, calls
  <2> HIDE DEF next
  <2>2. Depth = Len(config[request])
    <3>1. Depth # Len(config[request]) => Depth + 1 \in 1..Len(config[request])
      BY <1>2, <1>3
    <3>2. Depth # Len(config[request]) => next \in 1..Len(contexts)
      BY <1>3, <1>4, <3>1
    <3> QED
      BY <1>6, <3>2
  <2>3. handled' = <<request>>
    BY <1>2, <2>1 DEF CallHandler
  <2>4. result' \in Results /\ ~ Answered' /\ AnsweredOnce'
    BY <1>1, <1>2 DEF IInv, ServeInv, ServeTypeOK, Answered, AnsweredOnce
  <2> QED
    BY <1>1, <1>2, <2>1, <2>2, <2>3, <2>4, HandlerCalled DEF RanInOrder
<1> QED
  BY <1>5, <1>6

LEMMA HandleRequestKeeps ==
  ASSUME IInv, HandleRequest
  PROVE  IInv'
<1> DEFINE calls == TopDid("passed")
<1>1. InFilter /\ Top.done = "nothing" /\ UNCHANGED <<config, building, request>>
      /\ result' = [result EXCEPT !.skipped = TRUE]
  BY DEF HandleRequest
<1>2. /\ request \in Handlers /\ request # None /\ phase = "serving"
      /\ Depth \in 1..Len(config[request])
      /\ Top.ctx = ctxs_map[request][Depth]
      /\ InChain(calls, request) /\ Len(calls) = Depth
      /\ Len(ran) = Depth /\ RanInOrder
      /\ handled = <<>> /\ ~ Answered
  BY <1>1, InFilterKnows
<1>3. contexts[Top.ctx].handler = request
  BY <1>2, ChainIsSpelled
<1>4. CallHandler(calls, request)
  BY <1>3 DEF HandleRequest
<1> HIDE DEF calls
<1>5. handled' = <<request>>
  BY <1>2, <1>4 DEF CallHandler
<1>6. result' \in Results /\ result'.skipped /\ ~ Answered'
  BY <1>1, <1>2 DEF IInv, ServeInv, ServeTypeOK, Results, Answered
<1>7. AnsweredOnce'
  BY <1>1 DEF IInv, ServeInv, ServeTypeOK, Results, AnsweredOnce
<1> QED
  BY <1>1, <1>2, <1>4, <1>5, <1>6, <1>7, HandlerCalled DEF RanInOrder

LEMMA SendKeeps ==
  ASSUME IInv, Send \/ SendQuery
  PROVE  IInv'
<1> USE DEF IInv, ServeInv
<1>1. phase = "serving" /\ stack # <<>> /\ Top.done = "nothing"
      /\ stack' = TopDid("answered")
      /\ UNCHANGED <<config, building, request, ran, handled>>
  BY DEF Send, SendQuery, InHandler
<1>2. ~ Answered /\ result \in Results
  BY <1>1 DEF NotRequested, OnItsWay, InnermostIsFirst, ServeTypeOK
<1>3. /\ result' \in Results /\ result'.skipped = result.skipped
      /\ Answered' /\ AnsweredOnce'
  <2>1. result.replies = 0 /\ ~ result.closed /\ ~ result.pending
    BY <1>2 DEF Answered, Results
  <2>2. CASE Send
    BY <1>2, <2>1, <2>2 DEF Send, Results, Answered, AnsweredOnce
  <2>3. CASE SendQuery
    <3>1. /\ result' \in Results /\ result'.skipped = result.skipped
          /\ result'.replies = 0 /\ ~ result'.closed /\ result'.pending
      BY <1>2, <2>1, <2>3 DEF SendQuery, Results
    <3> QED
      BY <3>1 DEF Answered, AnsweredOnce
  <2> QED
    BY <2>2, <2>3
<1> QED
  BY <1>1, <1>3, InnermostDone

LEMMA ReturnKeeps ==
  ASSUME IInv, Return
  PROVE  IInv'
<1> USE DEF IInv, ServeInv
<1>1. phase = "serving" /\ stack # <<>> /\ stack' = Below
      /\ UNCHANGED <<config, building, request, ran, handled>>
      /\ result' = [result EXCEPT !.dropped = @ \/ Top.done = "nothing"]
  BY DEF Return
<1>2. SomethingBecame /\ result \in Results
  BY <1>1 DEF NotRequested, OnItsWay, ServeTypeOK
<1>3. /\ result' \in Results /\ result'.skipped = result.skipped
      /\ result'.replies = result.replies /\ result'.closed = result.closed
      /\ result'.pending = result.pending /\ result'.late = result.late
      /\ (result'.dropped <=> result.dropped \/ Top.done = "nothing")
  BY <1>1, <1>2 DEF Results
<1>4. (Answered \/ result.dropped)'
  BY <1>2, <1>3 DEF SomethingBecame, Answered
<1>5. AnsweredOnce'
  BY <1>3 DEF AnsweredOnce
<1> QED
  BY <1>1, <1>3, <1>4, <1>5, InnermostDone

LEMMA ThrowKeeps ==
  ASSUME IInv, Throw
  PROVE  IInv'
<1> USE DEF IInv, ServeInv
<1>1. phase = "serving" /\ stack # <<>> /\ stack' = Below
      /\ UNCHANGED <<config, building, request, ran, handled>>
      /\ result \in Results
      /\ Answered \in BOOLEAN
  BY DEF Throw, ServeTypeOK, Answered
<1>2. /\ result' \in Results /\ result'.skipped = result.skipped
      /\ result'.pending = result.pending
      /\ (result'.late <=> result.late \/ Answered)
      /\ \/ result'.replies = result.replies + 1 /\ result'.closed = result.closed
         \/ result'.replies = result.replies /\ result'.closed
  <2> DEFINE late == result.late \/ Answered
  <2>1. late \in BOOLEAN
    BY <1>1 DEF Results
  <2>2. \/ result' = [result EXCEPT !.replies = @ + 1, !.late = late]
        \/ result' = [result EXCEPT !.closed = TRUE, !.late = late]
    BY DEF Throw
  <2> HIDE DEF late
  <2>3. /\ result' \in Results /\ result'.skipped = result.skipped
        /\ result'.pending = result.pending
        /\ result'.late = late
        /\ \/ result'.replies = result.replies + 1 /\ result'.closed = result.closed
           \/ result'.replies = result.replies /\ result'.closed
    <3>1. result \in Results
      BY <1>1
    <3>2. CASE result' = [result EXCEPT !.replies = @ + 1, !.late = late]
      <4>1. result.replies + 1 \in Nat
        BY <3>1 DEF Results
      <4> DEFINE n == result.replies + 1
      <4>2. n \in Nat /\ result' = [result EXCEPT !.replies = n, !.late = late]
        BY <3>2, <4>1
      <4> HIDE DEF n
      <4>3. result' \in Results /\ result'.replies = n
            /\ result'.skipped = result.skipped /\ result'.pending = result.pending
            /\ result'.late = late /\ result'.closed = result.closed
        BY <2>1, <3>1, <4>2 DEF Results
      <4> QED
        BY <4>3 DEF n
    <3>3. CASE result' = [result EXCEPT !.closed = TRUE, !.late = late]
      BY <2>1, <3>1, <3>3 DEF Results
    <3> QED
      BY <2>2, <3>2, <3>3
  <2> QED
    BY <2>3 DEF late
<1>3. (Answered \/ result.dropped)'
  BY <1>1, <1>2 DEF Answered, Results
<1>4. AnsweredOnce'
  <2>1. CASE Answered
    BY <1>2, <2>1 DEF AnsweredOnce
  <2>2. CASE ~ Answered
    <3>1. result.replies = 0 /\ ~ result.closed /\ ~ result.pending
      BY <1>1, <2>2 DEF Answered, Results
    <3> QED
      BY <1>2, <3>1 DEF AnsweredOnce
  <2> QED
    BY <2>1, <2>2
<1> QED
  BY <1>1, <1>2, <1>3, <1>4, InnermostDone

LEMMA RequestEndsKeeps ==
  ASSUME IInv, RequestEnds
  PROVE  IInv'
<1> USE DEF IInv, ServeInv
<1>1. BuildInv' /\ UNCHANGED <<contexts, ctxs_map, phase>>
  BY ChainsStay DEF RequestEnds, building
<1>2. ServeTypeOK' /\ AnsweredOnce'
  BY <1>1 DEF RequestEnds, ServeTypeOK, AnsweredOnce, NoResult, Results
<1>3. NotRequested' /\ OnItsWay'
  BY <1>1 DEF RequestEnds, NotRequested, OnItsWay
<1> QED
  BY <1>1, <1>2, <1>3

LEMMA StutterKeeps ==
  ASSUME IInv, UNCHANGED vars
  PROVE  IInv'
<1> USE DEF IInv, ServeInv, vars, serving, building
<1>1. BuildInv'
  BY ChainsStay
<1>2. ServeTypeOK' /\ NotRequested' /\ AnsweredOnce'
  BY DEF ServeTypeOK, NotRequested, AnsweredOnce
<1>3. OnItsWay'
  BY DEF OnItsWay, RanInOrder, HandledLast, CallsFollowChain, InnermostIsFirst,
         SomethingBecame, Answered, Depth, Top
<1> QED
  BY <1>1, <1>2, <1>3
----------------------------------------------------------------------------
\* The chains spell the configuration, and every request is where it should be,
\* at every step.
THEOREM Invariance == Spec => []IInv
<1>1. Init => IInv
  BY InitIInv
<1>2. IInv /\ [Next]_vars => IInv'
  BY MakeHandlerKeeps, MakeContextKeeps, ChainMadeKeeps, BuildEndsKeeps,
     RouteKeeps, NextFilterKeeps, HandleRequestKeeps, SendKeeps, ReturnKeeps,
     ThrowKeeps, RequestEndsKeeps, StutterKeeps DEF Next, Ended
<1> QED
  BY <1>1, <1>2, PTL DEF Spec

\* Every variable has the values the code can give it; links lead to contexts
\* that were made before.
THEOREM TypeCorrect == Spec => []TypeOK
<1>1. IInv => TypeOK
  BY DEF IInv, BuildInv, ServeInv, BuildTypeOK, ServeTypeOK, TypeOK
<1> QED
  BY <1>1, Invariance, PTL

\* A request goes through the filters of its handler in the order of the
\* configuration and then to that handler, once, for any number of filters; and
\* past a filter only when a filter calls the handler itself.
THEOREM RequestsFollowConfiguration == Spec => []FiltersInOrder
<1>1. IInv => FiltersInOrder
  <2> SUFFICES ASSUME IInv, request # None PROVE FiltersInOrder
    BY DEF FiltersInOrder, IInv, ServeInv, NotRequested
  <2> DEFINE chain == config[request]
  <2>1. /\ ran \in Seq(FilterNames) /\ chain \in Seq(FilterNames)
        /\ Len(ran) \in Nat /\ Len(chain) \in Nat /\ request \in Handlers
    BY ChainIsSeq, LenProperties
       DEF IInv, BuildInv, BuildTypeOK, ServeInv, ServeTypeOK
  <2>2. Len(ran) <= Len(chain) /\ \A i \in 1..Len(ran) : ran[i] = chain[i]
    BY DEF IInv, ServeInv, OnItsWay, RanInOrder
  <2>3. handled # <<>> => /\ handled = <<request>>
                          /\ Len(ran) = Len(chain) \/ result.skipped
    BY DEF IInv, ServeInv, OnItsWay, HandledLast
  <2> HIDE DEF chain
  <2>4. Len(ran) = Len(chain) => ran = chain
    BY <2>1, <2>2, SeqEqual
  <2>5. IsPrefix(ran, chain)
    <3>1. SubSeq(ran, 1, Len(ran)) = [i \in 1..Len(ran) |-> ran[i]]
          /\ SubSeq(chain, 1, Len(ran)) = [i \in 1..Len(ran) |-> chain[i]]
      BY <2>1, <2>2, SubSeqIsFunction
    <3> QED
      BY <2>2, <3>1 DEF IsPrefix
  <2> QED
    BY <2>3, <2>4, <2>5 DEF FiltersInOrder, chain
<1> QED
  BY <1>1, Invariance, PTL

\* A request is answered, closed or left to a query once at most, however many
\* of its filters throw before somebody answered.
THEOREM RequestsAnsweredOnce == Spec => []AnsweredOnce
<1>1. IInv => AnsweredOnce
  BY DEF IInv, ServeInv
<1> QED
  BY <1>1, Invariance, PTL

\* Whatever throws, a request that has been left by its filters and its handler
\* has been answered, closed, left to a query, or dropped by a filter.
THEOREM RequestsNotForgotten == Spec => []NoneForgotten
<1>1. IInv => NoneForgotten
  BY DEF IInv, ServeInv, OnItsWay, SomethingBecame, NoneForgotten
<1> QED
  BY <1>1, Invariance, PTL
============================================================================
