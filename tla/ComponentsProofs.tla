-------------------------- MODULE ComponentsProofs --------------------------
(* The registry makes each component once and hands out no other instance,   *)
(* for every set of components and every dependence without circles.         *)
(*                                                                           *)
(* The argument: ranks fall along the nested constructors (RanksFall), so    *)
(* the component a constructor asks for is none of those being constructed;  *)
(* if it is not registered either, it has never been begun (MadeOrBegun).    *)
EXTENDS Components, SequenceTheorems, TLAPS

OnStack(n) == \E i \in DOMAIN stack : stack[i].name = n

NeedsFall == \A n \in Registered : needs[n] \subseteq LowerRanked(n)

RanksFall ==
    \A i, j \in DOMAIN stack :
      i < j => Rank[stack[j].name] < Rank[stack[i].name]

MadeOrBegun ==
    /\ \A n \in Registered :
         made[n] = IF n \in DOMAIN components \/ OnStack(n) THEN 1 ELSE 0
    /\ \A n \in DOMAIN components : components[n] = 1
    /\ \A i \in DOMAIN stack : stack[i].name \notin DOMAIN components

\* What a constructor has asked for it was given, but the one being made for it.
Asking ==
    \A i \in DOMAIN stack :
      /\ stack[i].left \subseteq needs[stack[i].name]
      /\ \A d \in needs[stack[i].name] \ stack[i].left :
           \/ \E link \in holds : link.user = stack[i].name /\ link.name = d
           \/ i < Len(stack) /\ stack[i + 1].name = d

IInv ==
    /\ TypeOK /\ NeedsFall /\ RanksFall /\ MadeOrBegun /\ Asking
    /\ HeldIsRegistered /\ NeedsComeFirst
----------------------------------------------------------------------------
LEMMA InitIInv == Init => IInv
<1> SUFFICES ASSUME Init PROVE IInv
  OBVIOUS
<1>1. TypeOK
  BY DEF Init, TypeOK
<1>2. NeedsFall
  BY DEF Init, NeedsFall
<1>3. DOMAIN components = {} /\ DOMAIN stack = {} /\ holds = {}
  BY DEF Init
<1>4. RanksFall /\ MadeOrBegun /\ Asking /\ HeldIsRegistered /\ NeedsComeFirst
  BY <1>3 DEF Init, RanksFall, MadeOrBegun, Asking, HeldIsRegistered,
              NeedsComeFirst, IsMade, OnStack
<1> QED
  BY <1>1, <1>2, <1>4 DEF IInv

\* Asking changes nothing of the stack but what the innermost has left.
LEMMA AskedFrames ==
  ASSUME TypeOK, NEW n \in Names, Asks(n)
  PROVE  /\ Asked(n) \in Seq(Frames)
         /\ Len(Asked(n)) = Depth
         /\ Depth \in Nat \ {0} /\ Depth \in DOMAIN stack
         /\ DOMAIN Asked(n) = DOMAIN stack
         /\ DOMAIN stack = 1..Depth
         /\ \A i \in DOMAIN stack :
              /\ Asked(n)[i].name = stack[i].name
              /\ Asked(n)[i].left =
                   IF i = Depth THEN stack[i].left \ {n} ELSE stack[i].left
<1> DEFINE frame == [name |-> Top.name, left |-> Top.left \ {n}]
<1>1. stack \in Seq(Frames) /\ stack # <<>>
  BY DEF TypeOK, Asks
<1>2. Depth \in Nat \ {0} /\ DOMAIN stack = 1..Depth
  BY <1>1, EmptySeq, LenProperties DEF Depth
<1>3. Depth \in 1..Len(stack)
  BY <1>2 DEF Depth
<1>4. Top \in Frames
  BY <1>1, <1>3 DEF Top
<1>5. frame \in Frames
  BY <1>4 DEF Frames
<1>6. Asked(n) = [stack EXCEPT ![Depth] = frame]
  <2>1. [Top EXCEPT !.left = @ \ {n}] = frame
    BY <1>4 DEF Frames
  <2> QED
    BY <2>1 DEF Asked, Top
<1> HIDE DEF frame
<1>7. /\ Asked(n) \in Seq(Frames)
      /\ Len(Asked(n)) = Len(stack)
      /\ \A i \in 1..Len(stack) :
           Asked(n)[i] = IF i = Depth THEN frame ELSE stack[i]
  BY <1>1, <1>3, <1>5, <1>6, ExceptSeq
<1>8. Len(stack) = Depth /\ Top = stack[Depth]
  BY DEF Depth, Top
<1>9. \A i \in 1..Depth :
        Asked(n)[i] = IF i = Depth THEN frame ELSE stack[i]
  BY <1>7, <1>8
<1>10. \A i \in DOMAIN stack :
         /\ Asked(n)[i].name = stack[i].name
         /\ Asked(n)[i].left =
              IF i = Depth THEN stack[i].left \ {n} ELSE stack[i].left
  <2> SUFFICES ASSUME NEW i \in DOMAIN stack
               PROVE  /\ Asked(n)[i].name = stack[i].name
                      /\ Asked(n)[i].left = IF i = Depth THEN stack[i].left \ {n}
                                                        ELSE stack[i].left
    OBVIOUS
  <2>1. Asked(n)[i] = IF i = Depth THEN frame ELSE stack[i]
    BY <1>2, <1>9
  <2>2. CASE i = Depth
    <3>1. Asked(n)[i] = frame /\ stack[i] = Top
      BY <1>8, <2>1, <2>2
    <3> QED
      BY <2>2, <3>1 DEF frame
  <2>3. CASE i # Depth
    BY <2>1, <2>3
  <2> QED
    BY <2>2, <2>3
<1>11. DOMAIN Asked(n) = DOMAIN stack
  BY DEF Asked
<1>12. Depth \in DOMAIN stack /\ Len(Asked(n)) = Depth
  BY <1>2, <1>7, <1>8
<1> QED
  BY <1>2, <1>7, <1>10, <1>11, <1>12

\* The constructor that begins is the innermost.
LEMMA CreateFrames ==
  ASSUME TypeOK, NEW calls \in Seq(Frames), NEW n \in Registered, Create(n, calls)
  PROVE  /\ stack' \in Seq(Frames)
         /\ Len(calls) \in Nat /\ Len(stack') = Len(calls) + 1
         /\ DOMAIN stack' = 1..(Len(calls) + 1)
         /\ \A i \in 1..Len(calls) : stack'[i] = calls[i]
         /\ stack'[Len(calls) + 1] = [name |-> n, left |-> needs[n]]
         /\ made' \in [Registered -> Nat]
         /\ \A m \in Registered :
              made'[m] = IF m = n THEN made[n] + 1 ELSE made[m]
<1> DEFINE frame == [name |-> n, left |-> needs[n]]
<1>1. frame \in Frames
  BY DEF TypeOK, Frames
<1>2. stack' = Append(calls, frame)
  BY DEF Create
<1> HIDE DEF frame
<1>3. /\ stack' \in Seq(Frames)
      /\ Len(stack') = Len(calls) + 1
      /\ \A i \in 1..Len(calls) : stack'[i] = calls[i]
      /\ stack'[Len(calls) + 1] = frame
  BY <1>1, <1>2, AppendProperties
<1>4. Len(calls) \in Nat /\ DOMAIN stack' = 1..(Len(calls) + 1)
  BY <1>3, LenProperties
<1>5. /\ made' \in [Registered -> Nat]
      /\ \A m \in Registered : made'[m] = IF m = n THEN made[n] + 1 ELSE made[m]
  BY DEF TypeOK, Create
<1> QED
  BY <1>3, <1>4, <1>5 DEF frame
----------------------------------------------------------------------------
\* What a constructor that begins leaves true, whoever called it.
LEMMA CreateIInv ==
  ASSUME IInv, NEW calls \in Seq(Frames), NEW n \in Registered, Create(n, calls),
         ~ IsMade(n), Len(calls) = Depth,
         \A i \in DOMAIN stack :
           /\ calls[i].name = stack[i].name
           /\ calls[i].left \subseteq stack[i].left
           /\ \A d \in stack[i].left \ calls[i].left : i = Depth /\ d = n,
         stack # <<>> => Rank[n] < Rank[Top.name],
         todo' \subseteq Registered,
         UNCHANGED <<needs, components, holds, status>>
  PROVE  IInv'
<1> USE DEF IInv
<1> DEFINE k == Depth + 1
<1>1. /\ Depth \in Nat /\ DOMAIN stack = 1..Depth
      /\ stack \in Seq(Frames)
      /\ stack # <<>> => Depth \in DOMAIN stack
  <2>1. stack \in Seq(Frames)
    BY DEF TypeOK
  <2>2. Len(stack) \in Nat /\ DOMAIN stack = 1..Len(stack)
    BY <2>1, LenProperties
  <2>3. stack # <<>> => Len(stack) # 0
    BY <2>1, EmptySeq
  <2> QED
    BY <2>1, <2>2, <2>3 DEF Depth
<1>2. /\ stack' \in Seq(Frames)
      /\ Len(stack') = k
      /\ DOMAIN stack' = 1..k
      /\ \A i \in 1..Depth : stack'[i] = calls[i]
      /\ stack'[k] = [name |-> n, left |-> needs[n]]
      /\ made' \in [Registered -> Nat]
      /\ \A m \in Registered : made'[m] = IF m = n THEN made[n] + 1 ELSE made[m]
  BY CreateFrames
<1>3. /\ \A i \in DOMAIN stack' : i \in DOMAIN stack \/ i = k
      /\ k \in DOMAIN stack' /\ k \notin DOMAIN stack
      /\ \A i \in DOMAIN stack : i \in DOMAIN stack' /\ stack'[i].name = stack[i].name
      /\ stack'[k].name = n /\ stack'[k].left = needs[n]
  BY <1>1, <1>2
<1>4. \A i \in DOMAIN stack : Rank[n] < Rank[stack[i].name]
  <2> SUFFICES ASSUME NEW i \in DOMAIN stack
               PROVE  Rank[n] < Rank[stack[i].name]
    OBVIOUS
  <2>1. stack # <<>> /\ Depth \in DOMAIN stack /\ Top = stack[Depth]
    BY <1>1 DEF Top
  <2>2. Rank[n] < Rank[Top.name]
    BY <2>1
  <2>3. \A j \in DOMAIN stack : stack[j].name \in Names
    <3>1. \A j \in DOMAIN stack : stack[j] \in Frames
      BY <1>1, ElementOfSeq DEF Depth
    <3> QED
      BY <3>1, RegisteredAssumption DEF Frames
  <2>4. Rank[n] \in Nat /\ Rank[Top.name] \in Nat /\ Rank[stack[i].name] \in Nat
    BY <2>1, <2>3, RankAssumption, RegisteredAssumption
  <2>5. i = Depth \/ Rank[Top.name] < Rank[stack[i].name]
    BY <1>1, <2>1 DEF RanksFall
  <2>6. CASE i = Depth
    BY <2>1, <2>2, <2>6
  <2>7. CASE Rank[Top.name] < Rank[stack[i].name]
    BY <2>2, <2>4, <2>7
  <2> QED
    BY <2>5, <2>6, <2>7
<1>5. ~ OnStack(n)
  <2> SUFFICES ASSUME NEW i \in DOMAIN stack, stack[i].name = n PROVE FALSE
    BY DEF OnStack
  <2>1. Rank[n] < Rank[n] /\ Rank[n] \in Nat
    BY <1>4, RankAssumption, RegisteredAssumption
  <2> QED
    BY <2>1
<1>6. TypeOK'
  BY <1>2 DEF TypeOK
<1>7. NeedsFall'
  BY DEF NeedsFall, LowerRanked
<1>8. RanksFall'
  <2> SUFFICES ASSUME NEW i \in DOMAIN stack', NEW j \in DOMAIN stack', i < j
               PROVE  Rank[stack'[j].name] < Rank[stack'[i].name]
    BY DEF RanksFall
  <2>1. i \in DOMAIN stack
    BY <1>1, <1>2, <1>3
  <2>2. CASE j = k
    BY <1>3, <1>4, <2>1, <2>2
  <2>3. CASE j \in DOMAIN stack
    BY <1>3, <2>1, <2>3 DEF RanksFall
  <2> QED
    BY <1>3, <2>2, <2>3
<1>9. MadeOrBegun'
  <2>1. \A m \in Registered : OnStack(m)' <=> OnStack(m) \/ m = n
    BY <1>3 DEF OnStack
  <2>2. made[n] = 0
    BY <1>5 DEF MadeOrBegun, IsMade
  <2>3. \A m \in Registered :
          made'[m] = IF m \in DOMAIN components' \/ OnStack(m)' THEN 1 ELSE 0
    <3> SUFFICES ASSUME NEW m \in Registered
                 PROVE  made'[m] =
                          IF m \in DOMAIN components \/ OnStack(m)' THEN 1 ELSE 0
      OBVIOUS
    <3>1. CASE m = n
      BY <1>2, <2>1, <2>2, <3>1
    <3>2. CASE m # n
      BY <1>2, <2>1, <3>2 DEF MadeOrBegun
    <3> QED
      BY <3>1, <3>2
  <2>4. \A i \in DOMAIN stack' : stack'[i].name \notin DOMAIN components'
    BY <1>3 DEF MadeOrBegun, IsMade
  <2>5. \A m \in DOMAIN components' : components'[m] = 1
    BY DEF MadeOrBegun
  <2> QED
    BY <2>3, <2>4, <2>5 DEF MadeOrBegun
<1>10. Asking'
  <2> SUFFICES ASSUME NEW i \in DOMAIN stack'
               PROVE  /\ stack'[i].left \subseteq needs'[stack'[i].name]
                      /\ \A d \in needs'[stack'[i].name] \ stack'[i].left :
                           \/ \E link \in holds :
                                link.user = stack'[i].name /\ link.name = d
                           \/ i < Len(stack') /\ stack'[i + 1].name = d
    BY DEF Asking
  <2>1. CASE i = k
    BY <1>3, <2>1
  <2>2. CASE i \in DOMAIN stack
    <3>1. /\ stack'[i] = calls[i] /\ i \in 1..Depth
          /\ calls[i].name = stack[i].name
          /\ calls[i].left \subseteq stack[i].left
      BY <1>1, <1>2, <2>2
    <3>2. stack'[i].left \subseteq needs'[stack'[i].name]
      BY <2>2, <3>1 DEF Asking
    <3>3. ASSUME NEW d \in needs'[stack'[i].name] \ stack'[i].left
          PROVE  \/ \E link \in holds :
                      link.user = stack'[i].name /\ link.name = d
                 \/ i < Len(stack') /\ stack'[i + 1].name = d
      <4>1. CASE d \in stack[i].left
        <5>1. i = Depth /\ d = n
          BY <2>2, <3>1, <3>3, <4>1
        <5> QED
          BY <1>1, <1>2, <1>3, <5>1
      <4>2. CASE d \notin stack[i].left
        <5>1. \/ \E link \in holds : link.user = stack[i].name /\ link.name = d
              \/ i < Depth /\ stack[i + 1].name = d
          BY <2>2, <3>1, <3>3, <4>2 DEF Asking, Depth
        <5>2. CASE \E link \in holds : link.user = stack[i].name /\ link.name = d
          BY <3>1, <5>2
        <5>3. CASE i < Depth /\ stack[i + 1].name = d
          <6>1. i + 1 \in DOMAIN stack /\ i < Len(stack')
            BY <1>1, <1>2, <3>1, <5>3
          <6> QED
            BY <1>3, <5>3, <6>1
        <5> QED
          BY <5>1, <5>2, <5>3
      <4> QED
        BY <4>1, <4>2
    <3> QED
      BY <3>2, <3>3
  <2> QED
    BY <1>3, <2>1, <2>2
<1>11. HeldIsRegistered' /\ NeedsComeFirst'
  BY DEF HeldIsRegistered, NeedsComeFirst, IsMade
<1> QED
  BY <1>6, <1>7, <1>8, <1>9, <1>10, <1>11

LEMMA VisitIInv == ASSUME IInv, NEW n \in todo, Visit(n) PROVE IInv'
<1> USE DEF IInv
<1>1. /\ stack = <<>> /\ n \in Registered /\ todo' \subseteq Registered
      /\ UNCHANGED <<needs, components, holds, status>>
  BY DEF Visit, TypeOK
<1>2. CASE IsMade(n)
  <2>1. UNCHANGED <<needs, stack, components, made, holds, status>>
    BY <1>1, <1>2 DEF Visit
  <2> QED
    BY <1>1, <2>1 DEF TypeOK, NeedsFall, LowerRanked, RanksFall, MadeOrBegun,
         OnStack, Asking, HeldIsRegistered, NeedsComeFirst, IsMade
<1>3. CASE ~ IsMade(n)
  <2>1. Create(n, stack) /\ stack \in Seq(Frames) /\ Len(stack) = Depth
    BY <1>3 DEF Visit, TypeOK, Depth
  <2>2. DOMAIN stack = {}
    BY <1>1
  <2> QED
    BY <1>1, <1>3, <2>1, <2>2, CreateIInv
<1> QED
  BY <1>2, <1>3

\* What a constructor asks for ranks below it.
LEMMA AsksLower ==
  ASSUME IInv, NEW n \in Names, Asks(n)
  PROVE  Top \in Frames /\ Top.name \in Registered /\ n \in needs[Top.name]
         /\ Rank[n] < Rank[Top.name]
<1> USE DEF IInv
<1>1. Depth \in DOMAIN stack /\ DOMAIN stack = 1..Depth /\ stack \in Seq(Frames)
  BY AskedFrames DEF TypeOK
<1>2. Top \in Frames
  BY <1>1 DEF Top
<1>3. Top.name \in Registered /\ n \in Top.left
  BY <1>2 DEF Frames, Asks
<1>4. Top.left \subseteq needs[Top.name]
  BY <1>1 DEF Asking, Top
<1>5. n \in LowerRanked(Top.name)
  BY <1>3, <1>4 DEF NeedsFall
<1> QED
  BY <1>2, <1>3, <1>4, <1>5 DEF LowerRanked

LEMMA GetMissingIInv == ASSUME IInv, NEW n \in Names, GetMissing(n) PROVE IInv'
<1> USE DEF IInv
<1>1. /\ Asks(n) /\ ~ IsMade(n) /\ n \in Registered
      /\ Create(n, Asked(n))
      /\ UNCHANGED <<needs, todo, components, holds, status>>
      /\ todo' \subseteq Registered
  BY DEF GetMissing, TypeOK
<1>2. /\ Asked(n) \in Seq(Frames)
      /\ Len(Asked(n)) = Depth
      /\ \A i \in DOMAIN stack :
           /\ Asked(n)[i].name = stack[i].name
           /\ Asked(n)[i].left =
                IF i = Depth THEN stack[i].left \ {n} ELSE stack[i].left
  BY <1>1, AskedFrames
<1>3. Rank[n] < Rank[Top.name]
  BY <1>1, AsksLower
<1>4. \A i \in DOMAIN stack :
        /\ Asked(n)[i].name = stack[i].name
        /\ Asked(n)[i].left \subseteq stack[i].left
        /\ \A d \in stack[i].left \ Asked(n)[i].left : i = Depth /\ d = n
  BY <1>2
<1> QED
  BY <1>1, <1>2, <1>3, <1>4, CreateIInv

LEMMA GetFoundIInv == ASSUME IInv, NEW n \in Names, GetFound(n) PROVE IInv'
<1> USE DEF IInv
<1> DEFINE new == [user |-> Top.name, name |-> n, instance |-> components[n]]
<1>1. /\ Asks(n) /\ n \in DOMAIN components
      /\ stack' = Asked(n) /\ holds' = holds \cup {new}
      /\ UNCHANGED <<needs, todo, components, made, status>>
  BY DEF GetFound, IsMade
<1>2. /\ stack' \in Seq(Frames)
      /\ Len(stack') = Len(stack) /\ Len(stack) = Depth
      /\ DOMAIN stack' = DOMAIN stack
      /\ \A i \in DOMAIN stack :
           /\ stack'[i].name = stack[i].name
           /\ stack'[i].left =
                IF i = Depth THEN stack[i].left \ {n} ELSE stack[i].left
  BY <1>1, AskedFrames DEF Depth
<1>3. DOMAIN stack = 1..Depth /\ Depth \in Nat
  BY <1>1, AskedFrames
<1>4. new \in Links
  <2>1. Top.name \in Registered
    BY <1>1, AsksLower
  <2>2. n \in Registered /\ components[n] \in Nat
    BY <1>1 DEF TypeOK
  <2> QED
    BY <2>1, <2>2 DEF Links
<1>5. TypeOK'
  BY <1>1, <1>2, <1>4 DEF TypeOK
<1>6. NeedsFall'
  BY <1>1 DEF NeedsFall, LowerRanked
<1>7. RanksFall'
  BY <1>1, <1>2 DEF RanksFall
<1>8. MadeOrBegun'
  <2>1. \A m \in Registered : OnStack(m)' <=> OnStack(m)
    BY <1>2 DEF OnStack
  <2>2. \A i \in DOMAIN stack' : stack'[i].name \notin DOMAIN components'
    BY <1>1, <1>2 DEF MadeOrBegun
  <2> QED
    BY <1>1, <2>1, <2>2 DEF MadeOrBegun
<1>9. Asking'
  <2> SUFFICES ASSUME NEW i \in DOMAIN stack'
               PROVE  /\ stack'[i].left \subseteq needs'[stack'[i].name]
                      /\ \A d \in needs'[stack'[i].name] \ stack'[i].left :
                           \/ \E link \in holds' :
                                link.user = stack'[i].name /\ link.name = d
                           \/ i < Len(stack') /\ stack'[i + 1].name = d
    BY DEF Asking
  <2>1. stack'[i].left \subseteq needs'[stack'[i].name]
    BY <1>1, <1>2 DEF Asking
  <2>2. ASSUME NEW d \in needs'[stack'[i].name] \ stack'[i].left
        PROVE  \/ \E link \in holds' :
                    link.user = stack'[i].name /\ link.name = d
               \/ i < Len(stack') /\ stack'[i + 1].name = d
    <3>1. CASE d \in stack[i].left
      <4>1. i = Depth /\ d = n
        BY <1>2, <2>2, <3>1
      <4>2. new.user = stack'[i].name /\ new.name = d
        BY <1>2, <4>1 DEF Top
      <4> QED
        BY <1>1, <4>2
    <3>2. CASE d \notin stack[i].left
      <4>1. \/ \E link \in holds : link.user = stack[i].name /\ link.name = d
            \/ i < Len(stack) /\ stack[i + 1].name = d
        <5>1. i \in DOMAIN stack /\ stack'[i].name = stack[i].name
          BY <1>2
        <5>2. d \in needs[stack[i].name] \ stack[i].left
          BY <1>1, <2>2, <3>2, <5>1
        <5> QED
          BY <5>1, <5>2 DEF Asking
      <4>2. CASE \E link \in holds : link.user = stack[i].name /\ link.name = d
        BY <1>1, <1>2, <4>2
      <4>3. CASE i < Len(stack) /\ stack[i + 1].name = d
        <5>1. i + 1 \in DOMAIN stack
          BY <1>2, <1>3, <4>3
        <5> QED
          BY <1>2, <4>3, <5>1
      <4> QED
        BY <4>1, <4>2, <4>3
    <3> QED
      BY <3>1, <3>2
  <2> QED
    BY <2>1, <2>2
<1>10. HeldIsRegistered'
  BY <1>1 DEF HeldIsRegistered, IsMade
<1>11. NeedsComeFirst'
  BY <1>1 DEF NeedsComeFirst
<1> QED
  BY <1>5, <1>6, <1>7, <1>8, <1>9, <1>10, <1>11

LEMMA ConstructedIInv == IInv /\ Constructed => IInv'
<1> SUFFICES ASSUME IInv, Constructed PROVE IInv'
  OBVIOUS
<1> USE DEF IInv
<1> DEFINE name == Top.name
           link(i) == [user |-> stack[i].name, name |-> name, instance |-> 1]
<1>1. /\ stack \in Seq(Frames) /\ stack # <<>> /\ Top.left = {}
      /\ UNCHANGED <<needs, todo, made, status>>
  BY DEF Constructed, TypeOK
<1>2. /\ Depth \in Nat \ {0} /\ DOMAIN stack = 1..Depth /\ Depth \in DOMAIN stack
      /\ Len(stack) = Depth
  <2>1. Depth \in Nat \ {0} /\ DOMAIN stack = 1..Depth
    BY <1>1, EmptySeq, LenProperties DEF Depth
  <2> QED
    BY <2>1 DEF Depth
<1>3. \A i \in DOMAIN stack : stack[i] \in Frames
  BY <1>1, <1>2, ElementOfSeq
<1>4. name \in Registered /\ Top = stack[Depth]
  BY <1>2, <1>3 DEF Top, Frames
<1>5. OnStack(name) /\ name \notin DOMAIN components /\ made[name] = 1
  <2>1. OnStack(name) /\ name \notin DOMAIN components
    BY <1>2, <1>4 DEF OnStack, MadeOrBegun
  <2> QED
    BY <1>4, <2>1 DEF MadeOrBegun
<1>6. /\ DOMAIN components' = DOMAIN components \cup {name}
      /\ components'[name] = 1
      /\ \A m \in DOMAIN components : components'[m] = components[m]
  BY <1>5 DEF Constructed, Insert
<1>7. /\ stack' \in Seq(Frames)
      /\ Len(stack') = Depth - 1
      /\ DOMAIN stack' = 1..(Depth - 1)
      /\ \A i \in 1..(Depth - 1) : stack'[i] = stack[i] /\ i \in DOMAIN stack
  <2>1. stack' = SubSeq(stack, 1, Depth - 1)
    BY DEF Constructed
  <2>2. Depth - 1 \in Nat /\ Depth - 1 \in Int /\ 1 \in Int
    BY <1>2
  <2>3. \A i \in 1..(Depth - 1) : stack[i] \in Frames /\ i \in DOMAIN stack
    BY <1>2, <1>3
  <2>4. /\ stack' \in Seq(Frames)
        /\ Len(stack') = IF 1 <= Depth - 1 THEN Depth - 1 - 1 + 1 ELSE 0
        /\ \A i \in 1..(Depth - 1 - 1 + 1) : stack'[i] = stack[1 + i - 1]
    BY <2>1, <2>2, <2>3, SubSeqProperties
  <2>5. Len(stack') = Depth - 1
    BY <2>2, <2>4
  <2>6. \A i \in 1..(Depth - 1) : stack'[i] = stack[i]
    BY <2>2, <2>4
  <2>7. DOMAIN stack' = 1..(Depth - 1)
    BY <2>4, <2>5, LenProperties
  <2> QED
    BY <2>3, <2>4, <2>5, <2>6, <2>7
<1>8. holds' = holds \cup {link(i) : i \in {Depth - 1} \ {0}}
  BY <1>5 DEF Constructed
<1>9. \A i \in 1..(Depth - 1) : stack[i].name # name
  <2> SUFFICES ASSUME NEW i \in 1..(Depth - 1), stack[i].name = name PROVE FALSE
    OBVIOUS
  <2>1. i \in DOMAIN stack /\ i < Depth
    BY <1>2
  <2>2. Rank[name] < Rank[stack[i].name]
    BY <1>2, <1>4, <2>1 DEF RanksFall
  <2>3. Rank[name] \in Nat
    BY <1>4, RankAssumption, RegisteredAssumption
  <2> QED
    BY <2>2, <2>3
<1>10. TypeOK'
  <2>1. \A i \in {Depth - 1} \ {0} : link(i) \in Links
    <3> SUFFICES ASSUME NEW i \in {Depth - 1} \ {0} PROVE link(i) \in Links
      OBVIOUS
    <3>1. i \in DOMAIN stack
      BY <1>2
    <3>2. stack[i].name \in Registered
      BY <1>3, <3>1 DEF Frames
    <3> QED
      BY <1>4, <3>2 DEF Links
  <2>2. holds' \subseteq Links
    BY <1>8, <2>1 DEF TypeOK
  <2>3. \A m \in DOMAIN components' : m \in Registered /\ components'[m] \in Nat \ {0}
    BY <1>4, <1>6 DEF TypeOK
  <2> QED
    BY <1>1, <1>7, <2>2, <2>3 DEF TypeOK
<1>11. NeedsFall'
  BY <1>1 DEF NeedsFall, LowerRanked
<1>12. RanksFall'
  BY <1>7 DEF RanksFall
<1>13. MadeOrBegun'
  <2>1. \A m \in Registered :
          m \in DOMAIN components' \/ OnStack(m)' <=>
          m \in DOMAIN components \/ OnStack(m)
    <3> SUFFICES ASSUME NEW m \in Registered
                 PROVE  m \in DOMAIN components' \/ OnStack(m)' <=>
                        m \in DOMAIN components \/ OnStack(m)
      OBVIOUS
    <3>1. OnStack(m)' => OnStack(m)
      BY <1>7 DEF OnStack
    <3>2. OnStack(m) => OnStack(m)' \/ m = name
      <4> SUFFICES ASSUME NEW i \in DOMAIN stack, stack[i].name = m
                   PROVE  OnStack(m)' \/ m = name
        BY DEF OnStack
      <4>1. i = Depth \/ i \in 1..(Depth - 1)
        BY <1>2
      <4> QED
        BY <1>4, <1>7, <4>1 DEF OnStack
    <3> QED
      BY <1>5, <1>6, <3>1, <3>2
  <2>2. \A m \in DOMAIN components' : components'[m] = 1
    BY <1>6 DEF MadeOrBegun
  <2>3. \A i \in DOMAIN stack' : stack'[i].name \notin DOMAIN components'
    BY <1>6, <1>7, <1>9 DEF MadeOrBegun
  <2> QED
    BY <1>1, <2>1, <2>2, <2>3 DEF MadeOrBegun
<1>14. Asking'
  <2> SUFFICES ASSUME NEW i \in DOMAIN stack'
               PROVE  /\ stack'[i].left \subseteq needs'[stack'[i].name]
                      /\ \A d \in needs'[stack'[i].name] \ stack'[i].left :
                           \/ \E l \in holds' :
                                l.user = stack'[i].name /\ l.name = d
                           \/ i < Len(stack') /\ stack'[i + 1].name = d
    BY DEF Asking
  <2>1. i \in DOMAIN stack /\ stack'[i] = stack[i] /\ i \in 1..(Depth - 1)
    BY <1>7
  <2>2. stack'[i].left \subseteq needs'[stack'[i].name]
    BY <1>1, <2>1 DEF Asking
  <2>3. ASSUME NEW d \in needs'[stack'[i].name] \ stack'[i].left
        PROVE  \/ \E l \in holds' : l.user = stack'[i].name /\ l.name = d
               \/ i < Len(stack') /\ stack'[i + 1].name = d
    <3>1. \/ \E l \in holds : l.user = stack[i].name /\ l.name = d
          \/ i < Len(stack) /\ stack[i + 1].name = d
      BY <1>1, <2>1, <2>3 DEF Asking
    <3>2. CASE \E l \in holds : l.user = stack[i].name /\ l.name = d
      BY <1>8, <2>1, <3>2
    <3>3. CASE stack[i + 1].name = d /\ i < Depth - 1
      <4>1. i + 1 \in 1..(Depth - 1) /\ i < Len(stack')
        BY <1>2, <1>7, <2>1, <3>3
      <4> QED
        BY <1>7, <3>3, <4>1
    <3>4. CASE stack[i + 1].name = d /\ i = Depth - 1
      <4>1. i + 1 = Depth /\ i \in {Depth - 1} \ {0}
        BY <1>2, <2>1, <3>4
      <4>2. d = name
        BY <1>4, <3>4, <4>1
      <4>3. link(i) \in holds'
        BY <1>8, <4>1
      <4>4. link(i).user = stack'[i].name /\ link(i).name = d
        BY <2>1, <4>2
      <4> QED
        BY <4>3, <4>4
    <3>5. i < Depth - 1 \/ i = Depth - 1
      BY <1>2, <2>1
    <3> QED
      BY <3>1, <3>2, <3>3, <3>4, <3>5
  <2> QED
    BY <2>2, <2>3
<1>15. HeldIsRegistered'
  <2> SUFFICES ASSUME NEW l \in holds'
               PROVE  l.name \in DOMAIN components' /\ l.instance = components'[l.name]
    BY DEF HeldIsRegistered, IsMade
  <2>1. CASE l \in holds
    BY <1>6, <2>1 DEF HeldIsRegistered, IsMade
  <2>2. CASE \E i \in {Depth - 1} \ {0} : l = link(i)
    BY <1>6, <2>2
  <2> QED
    BY <1>8, <2>1, <2>2
<1>16. NeedsComeFirst'
  <2> SUFFICES ASSUME NEW m \in DOMAIN components', NEW d \in needs[m]
               PROVE  \E l \in holds' : l.user = m /\ l.name = d
    BY <1>1 DEF NeedsComeFirst
  <2>1. CASE m \in DOMAIN components
    BY <1>8, <2>1 DEF NeedsComeFirst
  <2>2. CASE m = name
    <3>1. ~ (Depth < Len(stack))
      BY <1>2
    <3>2. d \in needs[stack[Depth].name] \ stack[Depth].left
      BY <1>1, <1>4, <2>2
    <3>3. \E l \in holds : l.user = stack[Depth].name /\ l.name = d
      BY <1>2, <3>1, <3>2 DEF Asking
    <3> QED
      BY <1>4, <1>8, <2>2, <3>3
  <2> QED
    BY <1>6, <2>1, <2>2
<1> QED
  BY <1>10, <1>11, <1>12, <1>13, <1>14, <1>15, <1>16

\* The end, in service or in failure, moves nothing but the status.
LEMMA StatusIInv ==
  ASSUME IInv, status' \in {"making", "ready", "failed"},
         UNCHANGED <<needs, todo, stack, components, made, holds>>
  PROVE  IInv'
BY DEF IInv, TypeOK, NeedsFall, LowerRanked, RanksFall, MadeOrBegun, OnStack,
       Asking, HeldIsRegistered, NeedsComeFirst, IsMade

LEMMA NextIInv == IInv /\ [Next]_vars => IInv'
<1> SUFFICES ASSUME IInv, [Next]_vars PROVE IInv'
  OBVIOUS
<1>1. CASE \E n \in todo : Visit(n)
  BY <1>1, VisitIInv
<1>2. CASE \E n \in Names : GetFound(n)
  BY <1>2, GetFoundIInv
<1>3. CASE \E n \in Names : GetMissing(n)
  BY <1>3, GetMissingIInv
<1>4. CASE Constructed
  BY <1>4, ConstructedIInv
<1>5. CASE \/ \E n \in Names : GetUnregistered(n)
           \/ Throws \/ AllVisited \/ Ended \/ UNCHANGED vars
  <2>1. /\ status' \in {"making", "ready", "failed"}
        /\ UNCHANGED <<needs, todo, stack, components, made, holds>>
    BY <1>5 DEF GetUnregistered, Throws, AllVisited, Ended, vars, IInv, TypeOK
  <2> QED
    BY <2>1, StatusIInv
<1> QED
  BY <1>1, <1>2, <1>3, <1>4, <1>5 DEF Next

THEOREM Invariance == Spec => []IInv
BY InitIInv, NextIInv, PTL DEF Spec
----------------------------------------------------------------------------
\* The type invariant, for every set of components.
THEOREM TypeCorrect == Spec => []TypeOK
<1>1. IInv => TypeOK
  BY DEF IInv
<1> QED
  BY <1>1, Invariance, PTL

\* No component is constructed twice.
THEOREM OneOfEach == Spec => []MadeOnce
<1>1. IInv => MadeOnce
  BY DEF IInv, MadeOrBegun, MadeOnce
<1> QED
  BY <1>1, Invariance, PTL

\* Every component that was handed out is the one that is registered.
THEOREM SharedByAll == Spec => []HeldIsRegistered
<1>1. IInv => HeldIsRegistered
  BY DEF IInv
<1> QED
  BY <1>1, Invariance, PTL

\* A registered component holds all it needs.
THEOREM NeedsAreHeld == Spec => []NeedsComeFirst
<1>1. IInv => NeedsComeFirst
  BY DEF IInv
<1> QED
  BY <1>1, Invariance, PTL
============================================================================
