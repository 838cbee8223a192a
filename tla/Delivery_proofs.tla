---------------------------- MODULE Delivery_proofs ----------------------------
(***************************************************************************)
(* Proofs about Delivery, for any topics, any number of events and ends of *)
(* the process: no event is lost but in the ways EventsAccounted names,    *)
(* and none that is promised is out of a running consumer's reach.         *)
(***************************************************************************)
EXTENDS Delivery, TLAPS

LEMMA InitType == Init => TypeOK
<1> SUFFICES ASSUME Init PROVE TypeOK
  OBVIOUS
<1>1. /\ produced \in [Topic -> 0 .. MaxEvents] /\ stops \in 0 .. MaxStops
      /\ offset \in [Topic -> Offsets] /\ position \in [Topic -> Offsets]
  BY BoundAssumption DEF Init, Offsets, None
<1>2. up \in BOOLEAN
  BY DEF Init
<1> QED BY <1>1, <1>2 DEF Init, TypeOK, Event

LEMMA TypeStep ==
  ASSUME TypeOK, [Next]_vars
  PROVE  TypeOK'
<1> USE BoundAssumption DEF TypeOK, Offsets, Event, None, config, kafka, consumer, history
<1>1. ASSUME NEW t \in Topic, CreateTopic(t) PROVE TypeOK'
  BY <1>1 DEF CreateTopic
<1>2. ASSUME NEW t \in Topic, Produce(t) PROVE TypeOK'
  BY <1>2 DEF Produce
<1>3. ASSUME NEW t \in Topic, Assign(t) PROVE TypeOK'
  <2>1. From(t) \in 0 .. MaxEvents
    BY DEF From
  <2>2. {e \in Events : e[1] = t} \subseteq Event
    BY DEF Events
  <2>3. skipped' \subseteq Event
    BY <1>3, <2>2 DEF Assign
  <2> QED BY <1>3, <2>1, <2>3 DEF Assign
<1>4. ASSUME NEW t \in Topic, Take(t) PROVE TypeOK'
  <2>1. position[t] + 1 \in 1 .. MaxEvents
    BY <1>4 DEF Take
  <2> QED BY <1>4, <2>1 DEF Take
<1>5. CASE Start
  <2>1. PICK found \in SUBSET topics : wanted' = Subscription(found)
    BY <1>5 DEF Start
  <2>2. wanted' \subseteq Topic
    BY <2>1 DEF Subscription
  <2>3. UNCHANGED <<config, kafka, position, hand, stops, handled, skipped, dropped>>
    BY <1>5 DEF Start
  <2>4. up' \in BOOLEAN
    BY <1>5 DEF Start
  <2>5. asked' \subseteq Topic
    BY <1>5 DEF Start
  <2>6. TypeOK' = (wanted' \subseteq Topic /\ up' \in BOOLEAN /\ asked' \subseteq Topic)
    BY <2>3
  <2> QED BY <2>2, <2>4, <2>5, <2>6
<1>6. CASE Process
  BY <1>6 DEF Process
<1>7. Committed \in [Topic -> Offsets]
  BY DEF Committed
<1>8. CASE Commit
  BY <1>7, <1>8 DEF Commit
<1>9. CASE Stop \/ Crash
  <2>1. End /\ offset' \in [Topic -> Offsets]
    BY <1>7, <1>9 DEF Stop, Crash
  <2>2. UNCHANGED <<config, topics, produced, asked, handled, skipped>>
    BY <2>1 DEF End
  <2>3. position' \in [Topic -> Offsets] /\ wanted' \subseteq Topic /\ hand' \subseteq Event
    BY <2>1 DEF End
  <2>4. up' \in BOOLEAN
    BY <2>1 DEF End
  <2>5. stops' \in 0 .. MaxStops
    BY <2>1 DEF End
  <2>6. dropped' \subseteq Event
    BY <2>1 DEF End
  <2> QED BY <2>1, <2>2, <2>3, <2>4, <2>5, <2>6
<1>10. CASE UNCHANGED vars
  BY <1>10 DEF vars
<1> QED
  BY <1>1, <1>2, <1>3, <1>4, <1>5, <1>6, <1>8, <1>9, <1>10 DEF Next

(* The state of Delivery keeps its types. *)
THEOREM TypeCorrect == Spec => []TypeOK
  BY InitType, TypeStep, PTL DEF Spec

-----------------------------------------------------------------------------
(* What lies before the position was handled or is in hand, and what lies     *)
(* before the committed offset was handled, unless a handler that waits has   *)
(* it in hand: positions are committed only while nothing is, or such a one   *)
(* is.                                                                        *)

Settled(e) ==
  e \in handled \/ (awaits /\ e \in dropped) \/ (reset = "latest" /\ e \in skipped)

BeforePosition ==
  \A t \in Topic : position[t] # None =>
    \A i \in 1 .. position[t] : Settled(<<t, i>>) \/ <<t, i>> \in hand

BeforeOffset ==
  \A t \in Topic : offset[t] # None =>
    \A i \in 1 .. offset[t] : Settled(<<t, i>>) \/ (awaits /\ <<t, i>> \in hand)

Accounts == BeforePosition /\ BeforeOffset

LEMMA InitAccounts == Init => Accounts
  BY DEF Init, Accounts, BeforePosition, BeforeOffset

LEMMA CommittedAccounts ==
  ASSUME TypeOK, Accounts, Waiting, NEW t \in Topic, Committed[t] # None
  PROVE  \A i \in 1 .. Committed[t] : Settled(<<t, i>>) \/ (awaits /\ <<t, i>> \in hand)
<1>1. Committed[t] = IF position[t] = None THEN offset[t] ELSE position[t]
  BY DEF Committed
<1>2. CASE position[t] = None
  BY <1>1, <1>2 DEF Accounts, BeforeOffset
<1>3. CASE position[t] # None
  BY <1>1, <1>3 DEF Accounts, BeforePosition, Waiting
<1> QED BY <1>2, <1>3

LEMMA AccountsStep ==
  ASSUME TypeOK, Accounts, [Next]_vars
  PROVE  Accounts'
<1> USE DEF config, kafka, consumer, history
<1>1. CASE UNCHANGED <<config, position, offset, hand, handled, skipped, dropped>>
  BY <1>1 DEF Accounts, BeforePosition, BeforeOffset, Settled
<1>2. ASSUME NEW t \in Topic, CreateTopic(t) \/ Produce(t) PROVE Accounts'
  BY <1>1, <1>2 DEF CreateTopic, Produce
<1>3. CASE Start \/ UNCHANGED vars
  BY <1>1, <1>3 DEF Start, vars
<1>4. ASSUME NEW t \in Topic, Assign(t) PROVE Accounts'
  <2>1. /\ position' = [position EXCEPT ![t] = From(t)]
        /\ skipped' = IF offset[t] = None /\ reset = "latest"
                      THEN skipped \cup {e \in Events : e[1] = t} ELSE skipped
        /\ UNCHANGED <<config, offset, hand, handled, dropped>>
    BY <1>4 DEF Assign
  <2>2. position'[t] = From(t) /\ \A s \in Topic \ {t} : position'[s] = position[s]
    BY <2>1 DEF TypeOK
  <2>3. \A e : Settled(e) => Settled(e)'
    BY <2>1 DEF Settled
  <2>4. BeforeOffset'
    BY <2>1, <2>3 DEF Accounts, BeforeOffset
  <2>5. ASSUME NEW i \in 1 .. From(t) PROVE Settled(<<t, i>>)' \/ <<t, i>> \in hand'
    <3>1. CASE offset[t] # None
      BY <2>1, <2>3, <2>5, <3>1 DEF From, Accounts, BeforeOffset
    <3>2. CASE offset[t] = None
      <4>1. reset = "latest" /\ i \in 1 .. produced[t]
        BY <2>5, <3>2 DEF From, TypeOK
      <4>2. <<t, i>> \in Events
        <5>1. produced[t] \in 0 .. MaxEvents
          BY DEF TypeOK
        <5>2. i \in 1 .. MaxEvents /\ i <= produced[t]
          BY <4>1, <5>1, BoundAssumption
        <5> QED BY <5>2 DEF Events
      <4>3. <<t, i>> \in skipped'
        BY <2>1, <3>2, <4>1, <4>2
      <4> QED BY <2>1, <4>1, <4>3 DEF Settled
    <3> QED BY <3>1, <3>2
  <2>6. BeforePosition'
    <3> SUFFICES ASSUME NEW s \in Topic, position'[s] # None, NEW i \in 1 .. position'[s]
                 PROVE  Settled(<<s, i>>)' \/ <<s, i>> \in hand'
      BY DEF BeforePosition, None
    <3>1. CASE s = t
      BY <2>2, <2>5, <3>1
    <3>2. CASE s # t
      BY <2>1, <2>2, <2>3, <3>2 DEF Accounts, BeforePosition
    <3> QED BY <3>1, <3>2
  <2> QED BY <2>4, <2>6 DEF Accounts
<1>5. ASSUME NEW t \in Topic, Take(t) PROVE Accounts'
  <2>1. /\ hand = {} /\ hand' = {<<t, position[t] + 1>>}
        /\ position' = [position EXCEPT ![t] = position[t] + 1]
        /\ position[t] # None
        /\ UNCHANGED <<config, offset, handled, skipped, dropped>>
    BY <1>5 DEF Take
  <2>2. position'[t] = position[t] + 1 /\ \A s \in Topic \ {t} : position'[s] = position[s]
    BY <2>1 DEF TypeOK
  <2>3. \A e : Settled(e)' <=> Settled(e)
    BY <2>1 DEF Settled
  <2>4. BeforeOffset'
    BY <2>1, <2>3 DEF Accounts, BeforeOffset
  <2>5. BeforePosition'
    <3> SUFFICES ASSUME NEW s \in Topic, position'[s] # None, NEW i \in 1 .. position'[s]
                 PROVE  Settled(<<s, i>>)' \/ <<s, i>> \in hand'
      BY DEF BeforePosition, None
    <3>1. CASE s = t
      <4>1. i \in 1 .. position[t] \/ i = position[t] + 1
        BY <2>1, <2>2, <3>1 DEF TypeOK, Offsets, None
      <4> QED BY <2>1, <2>3, <3>1, <4>1 DEF Accounts, BeforePosition
    <3>2. CASE s # t
      BY <2>1, <2>2, <2>3, <3>2 DEF Accounts, BeforePosition
    <3> QED BY <3>1, <3>2
  <2> QED BY <2>4, <2>5 DEF Accounts
<1>6. CASE Process
  BY <1>6 DEF Process, Accounts, BeforePosition, BeforeOffset, Settled
<1>7. CASE Commit
  <2>1. Waiting /\ offset' = Committed /\ UNCHANGED <<config, consumer, history>>
    BY <1>7 DEF Commit
  <2>2. BeforePosition'
    BY <2>1 DEF Accounts, BeforePosition, Settled
  <2>3. BeforeOffset'
    BY <2>1, CommittedAccounts DEF BeforeOffset, Settled
  <2> QED BY <2>2, <2>3 DEF Accounts
<1>8. CASE Stop \/ Crash
  <2>1. /\ position' = [t \in Topic |-> None] /\ hand' = {} /\ dropped' = dropped \cup hand
        /\ UNCHANGED <<config, handled, skipped>>
    BY <1>8 DEF Stop, Crash, End
  <2>2. offset' = offset \/ (Waiting /\ offset' = Committed)
    BY <1>8 DEF Stop, Crash
  <2>3. \A e : Settled(e) \/ (awaits /\ e \in hand) => Settled(e)'
    BY <2>1 DEF Settled
  <2>4. BeforePosition'
    BY <2>1 DEF BeforePosition, None
  <2>5. CASE offset' = offset
    <3>1. BeforeOffset'
      BY <2>3, <2>5 DEF Accounts, BeforeOffset
    <3> QED BY <2>4, <3>1 DEF Accounts
  <2>6. CASE Waiting /\ offset' = Committed
    <3>1. BeforeOffset'
      BY <2>3, <2>6, CommittedAccounts DEF BeforeOffset
    <3> QED BY <2>4, <3>1 DEF Accounts
  <2> QED BY <2>2, <2>5, <2>6
<1> QED BY <1>2, <1>3, <1>4, <1>5, <1>6, <1>7, <1>8 DEF Next

LEMMA AccountsSuffice ==
  ASSUME TypeOK, Accounts
  PROVE  EventsAccounted
<1> SUFFICES ASSUME NEW t \in Topic, NEW i \in 1 .. MaxEvents
             PROVE  \/ <<t, i>> \in handled \cup hand
                    \/ i > NextToRead(t)
                    \/ awaits /\ <<t, i>> \in dropped
                    \/ reset = "latest" /\ <<t, i>> \in skipped
  BY DEF EventsAccounted, Events
<1>1. CASE position[t] # None
  <2>1. NextToRead(t) = position[t] /\ position[t] \in 0 .. MaxEvents
    BY <1>1 DEF NextToRead, TypeOK, Offsets
  <2>2. CASE i <= position[t]
    <3>1. i \in 1 .. position[t]
      BY <2>1, <2>2
    <3> QED BY <1>1, <3>1 DEF Accounts, BeforePosition, Settled
  <2> QED BY <2>1, <2>2
<1>2. CASE position[t] = None /\ offset[t] # None
  <2>1. NextToRead(t) = offset[t] /\ offset[t] \in 0 .. MaxEvents
    BY <1>2 DEF NextToRead, TypeOK, Offsets
  <2>2. CASE i <= offset[t]
    <3>1. i \in 1 .. offset[t]
      BY <2>1, <2>2
    <3> QED BY <1>2, <3>1 DEF Accounts, BeforeOffset, Settled
  <2> QED BY <2>1, <2>2
<1>3. CASE position[t] = None /\ offset[t] = None
  <2>1. NextToRead(t) = 0
    BY <1>3 DEF NextToRead
  <2> QED BY <2>1
<1> QED BY <1>1, <1>2, <1>3

(* Every event was handled, is in hand or is still to be read, but for those  *)
(* a waiting handler had in hand when the process ended and those passed over *)
(* by a consumer that starts at the end.                                      *)
THEOREM NothingLostUnnoticed == Spec => []EventsAccounted
<1>1. TypeOK /\ Accounts /\ [Next]_vars => (TypeOK /\ Accounts)'
  BY TypeStep, AccountsStep
<1> QED BY <1>1, InitType, InitAccounts, AccountsSuffice, PTL DEF Spec

-----------------------------------------------------------------------------
(* What EventsGetHandled rests on besides fairness: an event that is promised *)
(* is settled, in hand, or ahead in a topic that this consumer subscribes to, *)
(* to be assigned or already read up to that event.                           *)

\* asked by name for the topics there were, or for those the pattern matches
SubscribedToAll == up => wanted = pattern \/ (discover /\ asked # {} /\ wanted = asked)

Ahead(t, i) == t \in wanted \cap topics /\ (position[t] = None \/ position[t] < i)

(* No promised event is behind the position of the consumer that is up, or in *)
(* a topic it did not subscribe to, without having been dealt with.           *)
NothingStuck ==
  \A e \in Events : up /\ Promised(e[1]) =>
    e \in handled \cup skipped \cup dropped \cup hand \/ Ahead(e[1], e[2])

LEMMA InitSubscribed == Init => SubscribedToAll
  BY DEF Init, SubscribedToAll

LEMMA SubscribedStep ==
  ASSUME SubscribedToAll, [Next]_vars
  PROVE  SubscribedToAll'
<1> USE DEF config, kafka, consumer, history
<1>1. ASSUME UNCHANGED <<discover, pattern, up, wanted, asked>> PROVE SubscribedToAll'
  BY <1>1 DEF SubscribedToAll
<1>2. ASSUME NEW t \in Topic, CreateTopic(t) \/ Produce(t) \/ Assign(t) \/ Take(t)
      PROVE  SubscribedToAll'
  BY <1>1, <1>2 DEF CreateTopic, Produce, Assign, Take
<1>3. CASE Start
  <2>1. PICK found \in IF discover THEN {topics, {}} ELSE {{}} : wanted' = Subscription(found)
    BY <1>3 DEF Start
  <2>2. asked' = topics /\ discover' = discover /\ pattern' = pattern
    BY <1>3 DEF Start
  <2>3. CASE found = {}
    BY <2>1, <2>2, <2>3 DEF Subscription, SubscribedToAll
  <2>4. CASE found # {}
    BY <2>1, <2>2, <2>4 DEF Subscription, SubscribedToAll
  <2> QED BY <2>3, <2>4
<1>4. CASE Process \/ Commit \/ UNCHANGED vars
  BY <1>1, <1>4 DEF Process, Commit, vars
<1>5. CASE Stop \/ Crash
  <2>1. up' = FALSE
    BY <1>5 DEF Stop, Crash, End
  <2> QED BY <2>1 DEF SubscribedToAll
<1> QED BY <1>2, <1>3, <1>4, <1>5 DEF Next

LEMMA StuckNowhere ==
  ASSUME TypeOK, Accounts, SubscribedToAll
  PROVE  NothingStuck
<1> SUFFICES ASSUME NEW t \in Topic, NEW i \in 1 .. MaxEvents, up, Promised(t)
             PROVE  <<t, i>> \in handled \cup skipped \cup dropped \cup hand \/ Ahead(t, i)
  BY DEF NothingStuck, Events
<1>1. t \in wanted \cap topics
  BY DEF SubscribedToAll, Promised
<1>2. CASE position[t] = None
  BY <1>1, <1>2 DEF Ahead
<1>3. CASE position[t] # None
  <2>1. position[t] \in 0 .. MaxEvents
    BY <1>3 DEF TypeOK, Offsets
  <2>2. CASE position[t] < i
    BY <1>1, <2>2 DEF Ahead
  <2>3. CASE i <= position[t]
    <3>1. i \in 1 .. position[t]
      BY <2>1, <2>3
    <3> QED BY <1>3, <3>1 DEF Accounts, BeforePosition, Settled
  <2> QED BY <2>1, <2>2, <2>3
<1> QED BY <1>2, <1>3

(* A consumer that is up never stands where a promised event can no longer    *)
(* reach it: the event is settled or in hand, or its topic is subscribed to   *)
(* and the position has not passed it.                                        *)
THEOREM PromisesStayInReach == Spec => []NothingStuck
<1>1. TypeOK /\ Accounts /\ SubscribedToAll /\ [Next]_vars => (TypeOK /\ Accounts /\ SubscribedToAll)'
  BY TypeStep, AccountsStep, SubscribedStep
<1> QED
  BY <1>1, InitType, InitAccounts, InitSubscribed, StuckNowhere, PTL DEF Spec
=============================================================================
