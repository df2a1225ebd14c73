----------------------------- MODULE Components -----------------------------
(* The registry of components: engine/src/components/components.{hpp,cpp},   *)
(* the factory behind it (engine/src/utils/factory.hpp) and MakeComponents   *)
(* (engine/src/http_server/server_builder.cpp).                              *)
(*                                                                           *)
(* A component's constructor gets the components it needs from the registry, *)
(* which makes those that are not there: constructors nest, and stack is the *)
(* constructors being run.  The factory is an unordered map, and C++ leaves  *)
(* the order of the Gets among a call's arguments open: both are choices.    *)
EXTENDS Naturals, Sequences, FiniteSets

CONSTANTS Names,        \* the names components are asked for by
          Registered,   \* those the factory knows (AddComponent)
          Rank          \* a component needs components of lower rank only

ASSUME RegisteredAssumption == Registered \subseteq Names
\* "circular component dependencies are not supported" (components.hpp:12)
ASSUME RankAssumption == Rank \in [Names -> Nat]

VARIABLES
    needs,       \* what each component's constructor gets
    todo,        \* the names MakeComponents has still to visit
    stack,       \* the constructors being run, the innermost last
    components,  \* components_: the registered instance of each name
    made,        \* how many instances of each name were begun
    holds,       \* which instance of a component each component was given
    status       \* making, ready, failed (an exception has ended the start)

vars == <<needs, todo, stack, components, made, holds, status>>

Frames == [name : Registered, left : SUBSET Names]
Links == [user : Registered, name : Registered, instance : Nat]
LowerRanked(n) == {d \in Names : Rank[d] < Rank[n]}

Init ==
    /\ needs \in {f \in [Registered -> SUBSET Names] :
                    \A n \in Registered : f[n] \subseteq LowerRanked(n)}
    /\ todo = Registered
    /\ stack = <<>>
    /\ components = <<>>
    /\ made = [n \in Registered |-> 0]
    /\ holds = {}
    /\ status = "making"

----------------------------------------------------------------------------
Making == status = "making"
Depth == Len(stack)
Top == stack[Depth]
IsMade(n) == n \in DOMAIN components

\* std::unordered_map::insert: an entry that exists stays.
Insert(n, instance) ==
    [m \in DOMAIN components \cup {n} |->
        IF m \in DOMAIN components THEN components[m] ELSE instance]

\* The factory's callback: the constructor of n begins, called from calls.
Create(n, calls) ==
    /\ made' = [made EXCEPT ![n] = @ + 1]
    /\ stack' = Append(calls, [name |-> n, left |-> needs[n]])

\* Mutant: MakeComponents makes a component that has been made for another.
VisitAll(n) ==
    /\ Making /\ stack = <<>> /\ n \in todo
    /\ todo' = todo \ {n}
    /\ Create(n, stack)
    /\ UNCHANGED <<needs, components, holds, status>>

\* make_components, called by the factory's ForEach.
Visit(n) ==
    /\ Making /\ stack = <<>> /\ n \in todo
    /\ todo' = todo \ {n}
    /\ IF IsMade(n) THEN UNCHANGED <<stack, made>> ELSE Create(n, stack)
    /\ UNCHANGED <<needs, components, holds, status>>

\* The innermost constructor asks for n.
Asks(n) == Making /\ stack # <<>> /\ n \in Top.left

Asked(n) == [stack EXCEPT ![Depth].left = @ \ {n}]

\* Get finds the component.
GetFound(n) ==
    /\ Asks(n) /\ IsMade(n)
    /\ stack' = Asked(n)
    /\ holds' = holds \cup
                  {[user |-> Top.name, name |-> n, instance |-> components[n]]}
    /\ UNCHANGED <<needs, todo, components, made, status>>

\* Mutant: the component is registered before its constructor has run.
GetMissingEarly(n) ==
    /\ Asks(n) /\ ~ IsMade(n) /\ n \in Registered
    /\ Create(n, Asked(n))
    /\ components' = Insert(n, 1)
    /\ UNCHANGED <<needs, todo, holds, status>>

\* Get does not find it and asks the factory.
GetMissing(n) ==
    /\ Asks(n) /\ ~ IsMade(n) /\ n \in Registered
    /\ Create(n, Asked(n))
    /\ UNCHANGED <<needs, todo, components, holds, status>>

\* Mutant: a null component is registered.
GetNull(n) ==
    /\ Asks(n) /\ ~ IsMade(n) /\ n \notin Registered
    /\ stack' = Asked(n)
    /\ components' = Insert(n, 0)
    /\ UNCHANGED <<needs, todo, made, holds, status>>

\* The factory has no such component: Get throws.
GetUnregistered(n) ==
    /\ Asks(n) /\ ~ IsMade(n) /\ n \notin Registered
    /\ status' = "failed"
    /\ UNCHANGED <<needs, todo, stack, components, made, holds>>

\* Mutant: Get gives its caller the component and forgets it.
ConstructedOnly ==
    /\ Making /\ stack # <<>> /\ Top.left = {}
    /\ components' = IF Depth = 1 THEN Insert(Top.name, made[Top.name])
                                  ELSE components
    /\ holds' = holds \cup
          {[user |-> stack[i].name, name |-> Top.name,
            instance |-> made[Top.name]] : i \in {Depth - 1} \ {0}}
    /\ stack' = SubSeq(stack, 1, Depth - 1)
    /\ UNCHANGED <<needs, todo, made, status>>

\* The innermost constructor returns: Get or MakeComponents adds what it made,
\* and Get gives it to the constructor that asked.
Constructed ==
    /\ Making /\ stack # <<>> /\ Top.left = {}
    /\ components' = Insert(Top.name, made[Top.name])
    /\ holds' = holds \cup
          {[user |-> stack[i].name, name |-> Top.name,
            instance |-> made[Top.name]] : i \in {Depth - 1} \ {0}}
    /\ stack' = SubSeq(stack, 1, Depth - 1)
    /\ UNCHANGED <<needs, todo, made, status>>

\* A constructor throws, or a component is not of the type asked for.
\* Nothing catches it before Main::Run, which ends the process.
Throws ==
    /\ Making /\ stack # <<>>
    /\ status' = "failed"
    /\ UNCHANGED <<needs, todo, stack, components, made, holds>>

\* ForEach is over.
AllVisited ==
    /\ Making /\ stack = <<>> /\ todo = {}
    /\ status' = "ready"
    /\ UNCHANGED <<needs, todo, stack, components, made, holds>>

Ended == ~ Making /\ UNCHANGED vars

Next ==
    \/ \E n \in todo : Visit(n)
    \/ \E n \in Names : GetFound(n) \/ GetMissing(n) \/ GetUnregistered(n)
    \/ Constructed
    \/ Throws
    \/ AllVisited
    \/ Ended

Spec == Init /\ [][Next]_vars

----------------------------------------------------------------------------
\* Every variable has the values the code can give it; no null is registered.
TypeOK ==
    /\ needs \in [Registered -> SUBSET Names]
    /\ todo \subseteq Registered
    /\ stack \in Seq(Frames)
    /\ DOMAIN components \subseteq Registered
    /\ \A n \in DOMAIN components : components[n] \in Nat \ {0}
    /\ made \in [Registered -> Nat]
    /\ holds \subseteq Links
    /\ status \in {"making", "ready", "failed"}

\* A component is constructed once, in whatever order the factory's names are
\* visited and however constructors nest: there is one connection pool, one
\* io_context and one cache of each kind.
MadeOnce == \A n \in Registered : made[n] <= 1

\* All that were given a component were given the registered one, which
\* ForEachComponentOfType starts, updates and stops.
HeldIsRegistered ==
    \A link \in holds :
      IsMade(link.name) /\ link.instance = components[link.name]

\* A component is registered when its constructor has got all it needs, and
\* none of these can be still under construction.
NeedsComeFirst ==
    \A n \in DOMAIN components : \A d \in needs[n] :
      \E link \in holds : link.user = n /\ link.name = d
============================================================================
