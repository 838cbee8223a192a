------------------------------- MODULE Delivery -------------------------------
(***************************************************************************)
(* service-c, the event consumer.  At its start it asks for the topics     *)
(* there are and subscribes to them by name, or to a pattern if there are  *)
(* none, the question fails, or it is configured not to ask.  It then      *)
(* takes one message at a time and hands it to its handler.  aiokafka      *)
(* advances the position when it hands a message out, commits positions    *)
(* from time to time and when it is stopped, and starts from the committed *)
(* offset, or where auto_offset_reset says, when a topic is assigned.      *)
(*                                                                         *)
(* Kafka is reduced to the number of events in each topic's one partition, *)
(* and the consumer group to its one member.                               *)
(***************************************************************************)
EXTENDS Integers

CONSTANTS
  Topic,
  MaxEvents,   \* bound on the events of a topic
  MaxStops     \* bound on the ends of the process

ASSUME BoundAssumption == MaxEvents \in Nat /\ MaxStops \in Nat

VARIABLES
  reset,      \* KAFKA_AUTO_OFFSET_RESET: "earliest" or "latest"
  discover,   \* KAFKA_DISCOVER_ALL_TOPICS
  pattern,    \* the topics that KAFKA_TOPIC_PATTERN matches, all by default
  awaits,     \* whether the handler lets others run; the default one, which logs, does not
  topics,     \* those that exist
  produced,   \* the number of events in each
  offset,     \* the committed offset of each, or None
  up,
  wanted,     \* the topics subscribed to, by name or by the pattern
  position,   \* of each topic assigned, else None
  hand,       \* the event being handled
  stops,
  (* history, read by the properties only *)
  asked,      \* the topics there were when the consumer started
  handled,    \* the events processed, or logged as failed
  skipped,    \* the events passed over by a reset to "latest"
  dropped     \* the events in hand when the process ended

config == <<reset, discover, pattern, awaits>>
kafka == <<topics, produced, offset>>
consumer == <<up, wanted, position, hand>>
history == <<asked, handled, skipped, dropped>>
vars == <<config, kafka, consumer, stops, history>>

None == -1

Events == {e \in Topic \X (1 .. MaxEvents) : e[2] <= produced[e[1]]}

-----------------------------------------------------------------------------
(* Kafka and its producers. *)

CreateTopic(t) ==
  /\ t \notin topics
  /\ topics' = topics \cup {t}
  /\ UNCHANGED <<config, produced, offset, consumer, stops, history>>

Produce(t) ==
  /\ t \in topics /\ produced[t] < MaxEvents
  /\ produced' = [produced EXCEPT ![t] = @ + 1]
  /\ UNCHANGED <<config, topics, offset, consumer, stops, history>>

-----------------------------------------------------------------------------
(* The consumer. *)

\* mutant: names found are subscribed to, be there any or not
SubscriptionByName(found) == found

\* the pattern is for when there is no name to subscribe to
Subscription(found) == IF found = {} THEN pattern ELSE found

Start ==
  /\ ~ up
  /\ up' = TRUE
  /\ \E found \in IF discover THEN {topics, {}} ELSE {{}} : wanted' = Subscription(found)
  /\ asked' = topics
  /\ UNCHANGED <<config, kafka, position, hand, stops, handled, skipped, dropped>>

From(t) ==
  IF offset[t] # None THEN offset[t] ELSE IF reset = "earliest" THEN 0 ELSE produced[t]

Assign(t) ==
  /\ up /\ t \in wanted \cap topics /\ position[t] = None
  /\ position' = [position EXCEPT ![t] = From(t)]
  /\ skipped' = IF offset[t] = None /\ reset = "latest"
                THEN skipped \cup {e \in Events : e[1] = t} ELSE skipped
  /\ UNCHANGED <<config, kafka, up, wanted, hand, stops, asked, handled, dropped>>

Take(t) ==
  /\ up /\ hand = {} /\ position[t] # None /\ position[t] < produced[t]
  /\ position' = [position EXCEPT ![t] = @ + 1]
  /\ hand' = {<<t, position[t] + 1>>}
  /\ UNCHANGED <<config, kafka, up, wanted, stops, history>>

\* the handler returns; or decoding or the handler fails, which is logged
Process ==
  /\ hand # {}
  /\ handled' = handled \cup hand
  /\ hand' = {}
  /\ UNCHANGED <<config, kafka, up, wanted, position, stops, asked, skipped, dropped>>

\* mutant: handlers run in tasks of their own, and the loop goes on
InTasks == TRUE

\* nothing else runs while a handler does not wait
Waiting == hand = {} \/ awaits

Committed == [t \in Topic |-> IF position[t] = None THEN offset[t] ELSE position[t]]

Commit ==
  /\ up /\ Waiting
  /\ offset' = Committed
  /\ UNCHANGED <<config, topics, produced, consumer, stops, history>>

End ==
  /\ up /\ stops < MaxStops
  /\ stops' = stops + 1
  /\ up' = FALSE
  /\ wanted' = {}
  /\ position' = [t \in Topic |-> None]
  /\ dropped' = dropped \cup hand
  /\ hand' = {}
  /\ UNCHANGED <<config, topics, produced, asked, handled, skipped>>

\* interrupted: the loop is cancelled where it waits, and the consumer stopped
Stop ==
  /\ Waiting
  /\ End
  /\ offset' \in {offset, Committed}

Crash ==
  /\ End
  /\ UNCHANGED offset

Init ==
  /\ reset \in {"earliest", "latest"} /\ discover \in BOOLEAN /\ awaits \in BOOLEAN
  /\ pattern \in SUBSET Topic
  /\ topics \in SUBSET Topic
  /\ produced = [t \in Topic |-> 0]
  /\ offset = [t \in Topic |-> None]
  /\ up = FALSE /\ wanted = {}
  /\ position = [t \in Topic |-> None]
  /\ hand = {}
  /\ stops = 0
  /\ asked = {} /\ handled = {} /\ skipped = {} /\ dropped = {}

Next ==
  \/ \E t \in Topic : CreateTopic(t) \/ Produce(t) \/ Assign(t) \/ Take(t)
  \/ Start \/ Process \/ Commit \/ Stop \/ Crash

\* the broker assigns and delivers, and handlers return
Fairness ==
  /\ \A t \in Topic : WF_vars(Assign(t)) /\ SF_vars(Take(t))
  /\ WF_vars(Process)

Spec == Init /\ [][Next]_vars /\ Fairness
-----------------------------------------------------------------------------
(* Properties. *)

Offsets == {None} \cup 0 .. MaxEvents
Event == Topic \X (1 .. MaxEvents)

TypeOK ==
  /\ reset \in {"earliest", "latest"} /\ discover \in BOOLEAN /\ awaits \in BOOLEAN
  /\ pattern \subseteq Topic /\ topics \subseteq Topic
  /\ produced \in [Topic -> 0 .. MaxEvents]
  /\ offset \in [Topic -> Offsets]
  /\ up \in BOOLEAN
  /\ wanted \subseteq Topic
  /\ position \in [Topic -> Offsets]
  /\ hand \subseteq Event
  /\ stops \in 0 .. MaxStops
  /\ asked \subseteq Topic
  /\ handled \subseteq Event /\ skipped \subseteq Event /\ dropped \subseteq Event

(* No event is lost unnoticed.  Each one produced was handled, is in hand, or *)
(* will still be read from where the consumer stands or would start; the      *)
(* exceptions are one in the hand of a handler that waits when the process    *)
(* ends, whose offset may be committed already, and those there were before   *)
(* anything was committed, if the consumer is set to start at the end.        *)
NextToRead(t) ==
  IF position[t] # None THEN position[t] ELSE IF offset[t] # None THEN offset[t] ELSE 0

EventsAccounted ==
  \A e \in Events :
    \/ e \in handled \cup hand
    \/ e[2] > NextToRead(e[1])
    \/ awaits /\ e \in dropped
    \/ reset = "latest" /\ e \in skipped

(* While the consumer stays up, an event is handled in the end if the pattern  *)
(* matches its topic, which was there when the consumer started, or none was,  *)
(* or the consumer does not ask.  Nothing is promised of the topics that come  *)
(* later to a consumer that subscribed by name.                                *)
Promised(t) == t \in topics \cap pattern /\ (t \in asked \/ asked = {} \/ ~ discover)

EventsGetHandled ==
  \A t \in Topic, i \in 1 .. MaxEvents :
    up /\ Promised(t) /\ i <= produced[t]
      ~> ~ up \/ <<t, i>> \in handled \cup skipped \cup dropped
=============================================================================
